---- MODULE Spec2Model ----
(***************************************************************************)
(* A model of horcrux (github.com/Beastly713/horcrux): Shamir secret       *)
(* sharing over GF(2^8), the compress/encrypt/length-prefix/Reed-Solomon   *)
(* pipeline, the horcrux container format, and the split and bind          *)
(* commands.  Byte strings are sequences of integers in 0..255.            *)
(***************************************************************************)
EXTENDS Integers, Sequences, FiniteSets, TLC

VARIABLES
    shamir,     \* pkg/shamir: one Split followed by one Combine
    secrecy,    \* pkg/shamir: what t-1 shares of one secret byte can show
    rs,         \* pkg/sharding: one Splitter.Split followed by one Splitter.Join
    pipe,       \* pkg/pipeline: one SplitPipeline followed by one JoinPipeline
    container,  \* pkg/format: one Writer.Write followed by one NewReader
    cmd,        \* cmd: the directory of a split followed by a bind
    stego,      \* pkg/stego: one Embed followed by one Extract
    keybuf      \* pkg/crypto/secrets: the key buffer of one split or bind

vars == <<shamir, secrecy, rs, pipe, container, cmd, stego, keybuf>>

\* The value of a variable that the specification at hand does not use.
Idle == [phase |-> "idle"]

(***************************************************************************)
(* Bounds of the model.                                                    *)
(***************************************************************************)
MaxParts == 3
MaxSecretLen == 2
MaxSeed == 2

\* Byte values the inputs are drawn from.
SecretBytes == {0, 83, 255}

Byte == 0..255

(***************************************************************************)
(* Helpers on sequences.                                                   *)
(***************************************************************************)
Range(q) == {q[i] : i \in DOMAIN q}

\* Op applied to the value v: the steps of a function that follow one of its
\* assignments, with the value assigned.
With(v, Op(_)) == Op(v)

IsInjective(q) == \A i, j \in DOMAIN q : q[i] = q[j] => i = j

\* All non-empty sequences over S without repetition.
SeqsNoRep(S) ==
    {q \in UNION {[1..k -> S] : k \in 1..Cardinality(S)} : IsInjective(q)}

\* All sequences over S of length lo..hi.
SeqsOf(S, lo, hi) == UNION {[1..k -> S] : k \in lo..hi}

(***************************************************************************)
(* GF(2^8) arithmetic of pkg/shamir.                                       *)
(***************************************************************************)
RECURSIVE XorN(_, _, _)
XorN(a, b, k) ==
    IF k = 0 THEN 0
    ELSE ((a + b) % 2) + 2 * XorN(a \div 2, b \div 2, k - 1)

XorNibble == [a \in 0..15 |-> [b \in 0..15 |-> XorN(a, b, 4)]]

\* a ^ b on bytes
add(a, b) == 16 * XorNibble[a \div 16][b \div 16] + XorNibble[a % 16][b % 16]

\* Multiplication by x modulo the field polynomial poly (9 bits).
xtime(a, poly) == IF 2 * a < 256 THEN 2 * a ELSE add(2 * a - 256, poly - 256)

RECURSIVE gfMulSlow(_, _, _)
gfMulSlow(a, b, poly) ==
    IF b = 0 THEN 0
    ELSE LET r == gfMulSlow(xtime(a, poly), b \div 2, poly)
         IN  IF b % 2 = 1 THEN add(a, r) ELSE r

RECURSIVE gfPowSlow(_, _, _)
gfPowSlow(g, e, poly) ==
    IF e = 0 THEN 1
    ELSE LET h  == gfPowSlow(g, e \div 2, poly)
             h2 == gfMulSlow(h, h, poly)
         IN  IF e % 2 = 1 THEN gfMulSlow(h2, g, poly) ELSE h2

\* The field of the share engine: x^8 + x^4 + x^3 + x + 1, generator 3.
ShamirPoly == 283
ShamirGenerator == 3

expTable == [i \in 0..254 |-> gfPowSlow(ShamirGenerator, i, ShamirPoly)]

logTable ==
    [a \in Byte |-> IF a = 0 THEN 0 ELSE CHOOSE i \in 0..254 : expTable[i] = a]

\* Go's remainder keeps the sign of the dividend.
GoRem(a, m) == IF a >= 0 THEN a % m ELSE -((-a) % m)

\* div panics on a zero divisor.
divPanics(a, b) == b = 0

div(a, b) ==
    LET diff0 == GoRem(logTable[a] - logTable[b], 255)
        diff  == IF diff0 < 0 THEN diff0 + 255 ELSE diff0
    IN  IF a = 0 THEN 0 ELSE expTable[diff]

\* mult without the test for a zero factor.
multNoZeroCheck(a, b) == expTable[(logTable[a] + logTable[b]) % 255]

mult(a, b) ==
    LET sum == (logTable[a] + logTable[b]) % 255
    IN  IF a = 0 \/ b = 0 THEN 0 ELSE expTable[sum]

(***************************************************************************)
(* Polynomials of pkg/shamir.                                              *)
(***************************************************************************)
\* crypto/rand: the pos-th byte of the stream that seed stands for.  Seed 0
\* is the stream of zero bytes; stream 1 starts with 83, so that a share of
\* the secret byte 83 at x = 1 is the zero byte.
RandByte(seed, pos) ==
    IF seed = 0 THEN 0 ELSE (seed * 83 + (pos - 1) * 151 + seed * (pos - 1) * 7) % 256

\* makePolynomial that leaves the coefficients above the intercept zero.
makePolynomialNoRandom(intercept, degree, rnd) ==
    [i \in 1..(degree + 1) |-> IF i = 1 THEN intercept ELSE 0]

\* coefficients[0] is the intercept, coefficients[1..degree] are random.
\* Here coefficients are indexed 1..degree+1.
makePolynomial(intercept, degree, rnd) ==
    [i \in 1..(degree + 1) |-> IF i = 1 THEN intercept ELSE rnd[i - 1]]

RECURSIVE horner(_, _, _, _)
horner(coefficients, x, i, out) ==
    IF i < 1 THEN out
    ELSE horner(coefficients, x, i - 1, add(mult(out, x), coefficients[i]))

evaluate(coefficients, x) ==
    IF x = 0 THEN coefficients[1]
    ELSE LET degree == Len(coefficients) - 1
         IN  horner(coefficients, x, degree, coefficients[degree + 1])

RECURSIVE basisOf(_, _, _, _, _)
basisOf(x_samples, x, i, j, basis) ==
    IF j > Len(x_samples) THEN basis
    ELSE IF i = j THEN basisOf(x_samples, x, i, j + 1, basis)
    ELSE LET num   == add(x, x_samples[j])
             denom == add(x_samples[i], x_samples[j])
             term  == div(num, denom)
         IN  basisOf(x_samples, x, i, j + 1, mult(basis, term))

RECURSIVE interpolateFrom(_, _, _, _, _)
interpolateFrom(x_samples, y_samples, x, i, result) ==
    IF i > Len(x_samples) THEN result
    ELSE LET basis == basisOf(x_samples, x, i, 1, 1)
             group == mult(y_samples[i], basis)
         IN  interpolateFrom(x_samples, y_samples, x, i + 1, add(result, group))

\* Whether some call of div made by interpolatePolynomial has divisor zero.
interpolatePanics(x_samples) ==
    \E i, j \in 1..Len(x_samples) :
        i # j /\ divPanics(0, add(x_samples[i], x_samples[j]))

\* Interpolation through the first two samples alone.
interpolateFirstTwo(x_samples, y_samples, x) ==
    interpolateFrom(SubSeq(x_samples, 1, 2), SubSeq(y_samples, 1, 2), x, 1, 0)

interpolatePolynomial(x_samples, y_samples, x) ==
    interpolateFrom(x_samples, y_samples, x, 1, 0)

(***************************************************************************)
(* shamir.Split and shamir.Combine.                                        *)
(***************************************************************************)
\* x-coordinates that count from 0.
ShareXZeroBased(idx) == (idx - 1) % 256

\* The x-coordinate stored in the last byte of share idx (1-based here).
ShareX(idx) == (((idx - 1) % 256) + 1) % 256

\* Split without the limit of 255 parts.
ShamirSplitUnbounded(secret, parts, threshold, seed) ==
    IF parts < threshold THEN [err |-> "parts cannot be less than threshold", out |-> <<>>]
    ELSE IF threshold < 2 THEN [err |-> "threshold must be at least 2", out |-> <<>>]
    ELSE IF Len(secret) = 0 THEN [err |-> "cannot split empty secret", out |-> <<>>]
    ELSE [err |-> "",
          out |-> [i \in 1..parts |->
                     [idx \in 1..(Len(secret) + 1) |->
                         IF idx = Len(secret) + 1 THEN ShareX(i)
                         ELSE evaluate(makePolynomial(secret[idx], (threshold - 1) % 256,
                                           [k \in 1..((threshold - 1) % 256) |->
                                               RandByte(seed, (idx - 1) * ((threshold - 1) % 256) + k)]),
                                       ShareX(i))]]]

ShamirSplit(secret, parts, threshold, seed) ==
    IF parts < threshold THEN [err |-> "parts cannot be less than threshold", out |-> <<>>]
    ELSE IF parts > 255 THEN [err |-> "parts cannot exceed 255", out |-> <<>>]
    ELSE IF threshold < 2 THEN [err |-> "threshold must be at least 2", out |-> <<>>]
    ELSE IF Len(secret) = 0 THEN [err |-> "cannot split empty secret", out |-> <<>>]
    ELSE
      LET degree == (threshold - 1) % 256
          \* the polynomial of secret byte idx: its random bytes are the next
          \* degree bytes of the stream
          p(idx) == makePolynomial(secret[idx], degree,
                        [k \in 1..degree |-> RandByte(seed, (idx - 1) * degree + k)])
      IN  [err |-> "",
           out |-> [i \in 1..parts |->
                      [idx \in 1..(Len(secret) + 1) |->
                          IF idx = Len(secret) + 1 THEN ShareX(i)
                          ELSE evaluate(p(idx), ShareX(i))]]]

\* outcome: "ok", "error" (an error value is returned) or "panic".
ShamirCombine(parts) ==
    IF Len(parts) < 2 THEN [outcome |-> "error", secret |-> <<>>]
    ELSE
      LET firstLen == Len(parts[1])
      IN  IF firstLen - 1 < 0 THEN [outcome |-> "panic", secret |-> <<>>]
          ELSE IF \E i \in 1..Len(parts) : Len(parts[i]) # firstLen
               THEN [outcome |-> "error", secret |-> <<>>]
          ELSE
            LET xSamples == [i \in 1..Len(parts) |-> parts[i][firstLen]]
                ySamples(idx) == [i \in 1..Len(parts) |-> parts[i][idx]]
            IN  IF firstLen - 1 > 0 /\ interpolatePanics(xSamples)
                THEN [outcome |-> "panic", secret |-> <<>>]
                ELSE [outcome |-> "ok",
                      secret  |-> [idx \in 1..(firstLen - 1) |->
                                     interpolatePolynomial(xSamples, ySamples(idx), 0)]]

(***************************************************************************)
(* Specification SpecShamir: a secret is split and some of the shares are  *)
(* combined.                                                               *)
(***************************************************************************)
Secrets == SeqsOf(SecretBytes, 1, MaxSecretLen)

ShamirInit ==
    /\ shamir \in {[phase |-> "start", secret |-> s, parts |-> n, threshold |-> t,
                    shares |-> <<>>, picked |-> <<>>,
                    result |-> [outcome |-> "none", secret |-> <<>>]] :
                      s \in Secrets, n \in 2..MaxParts, t \in 2..MaxParts}
    /\ shamir.threshold <= shamir.parts
    /\ secrecy = Idle /\ rs = Idle /\ pipe = Idle /\ container = Idle /\ cmd = Idle
    /\ stego = Idle /\ keybuf = Idle

DoShamirSplit ==
    /\ shamir.phase = "start"
    /\ \E seed \in 0..MaxSeed :
       \E r \in {ShamirSplit(shamir.secret, shamir.parts, shamir.threshold, seed)} :
         /\ r.err = ""
         /\ shamir' = [shamir EXCEPT !.phase = "split", !.shares = r.out]
    /\ UNCHANGED <<secrecy, rs, pipe, container, cmd, stego, keybuf>>

DoShamirCombine ==
    /\ shamir.phase = "split"
    /\ \E sel \in SeqsNoRep(1..shamir.parts) :
         LET parts == [k \in 1..Len(sel) |-> shamir.shares[sel[k]]]
         IN  shamir' = [shamir EXCEPT !.phase = "combined", !.picked = sel,
                                      !.result = ShamirCombine(parts)]
    /\ UNCHANGED <<secrecy, rs, pipe, container, cmd, stego, keybuf>>

ShamirNext == DoShamirSplit \/ DoShamirCombine

SpecShamir == ShamirInit /\ [][ShamirNext]_vars

\* C1: combining any subset of at least threshold shares of a split secret
\* returns exactly the secret.
C1_CombineRecoversSecret ==
    (shamir.phase = "combined" /\ Len(shamir.picked) >= shamir.threshold)
        => (shamir.result.outcome = "ok" /\ shamir.result.secret = shamir.secret)

C1_Witness ==
    /\ shamir.phase = "combined"
    /\ shamir.parts = 3 /\ shamir.threshold = 2
    /\ Len(shamir.secret) = 2
    /\ shamir.picked = <<3, 1>>
    /\ shamir.result.secret = shamir.secret
    /\ shamir.shares[1][1] # shamir.secret[1]

(***************************************************************************)
(* Specification SpecSecrecy: what a holder of threshold-1 shares of one   *)
(* secret byte can see, over every choice of the random coefficients.      *)
(***************************************************************************)
\* Thresholds for which every coefficient vector (256^(t-1) of them) is
\* enumerated.
SecrecyThresholds == {2, 3}

\* The shares at the x-coordinates xs (a sequence) of the polynomial that Split
\* makes for secret byte b with random coefficients c: one number per view,
\* base 256, most significant digit first.
RECURSIVE ViewCode(_, _, _, _)
ViewCode(coefficients, xs, k, acc) ==
    IF k > Len(xs) THEN acc
    ELSE ViewCode(coefficients, xs, k + 1, acc * 256 + evaluate(coefficients, xs[k]))

ShareView(b, threshold, c, xs) ==
    ViewCode(makePolynomial(b, (threshold - 1) % 256, c), xs, 1, 0)

\* Every view that threshold-1 shares of secret byte b can take.
ViewSet(b, threshold, xs) ==
    {ShareView(b, threshold, c, xs) : c \in [1..(threshold - 1) -> Byte]}

\* The x-coordinates in increasing order.
RECURSIVE SortedSeq(_)
SortedSeq(S) ==
    IF S = {} THEN <<>>
    ELSE LET m == CHOOSE x \in S : \A y \in S : x <= y
         IN  <<m>> \o SortedSeq(S \ {m})

\* The random coefficients Split draws for the secret byte at position idx.
SplitCoefficients(seed, threshold, idx) ==
    LET degree == (threshold - 1) % 256
    IN  [k \in 1..degree |-> RandByte(seed, (idx - 1) * degree + k)]

SecrecyInit ==
    /\ secrecy \in {[phase |-> "choosing", threshold |-> t, xs |-> {},
                     byteA |-> 0, byteB |-> 0, seed |-> 0, idx |-> 0, view |-> 0,
                     same |-> TRUE, consistent |-> TRUE] : t \in SecrecyThresholds}
    /\ secrecy.threshold <= MaxParts
    /\ shamir = Idle /\ rs = Idle /\ pipe = Idle /\ container = Idle /\ cmd = Idle
    /\ stego = Idle /\ keybuf = Idle

\* The holder obtains one more share, of some x-coordinate in 1..parts.
ChooseShare ==
    /\ secrecy.phase = "choosing"
    /\ Cardinality(secrecy.xs) < secrecy.threshold - 1
    /\ \E i \in 1..MaxParts :
         /\ \A x \in secrecy.xs : x < ShareX(i)
         /\ secrecy' = [secrecy EXCEPT !.xs = @ \cup {ShareX(i)}]
    /\ UNCHANGED <<shamir, rs, pipe, container, cmd, stego, keybuf>>

\* One Split of a secret whose byte at position idx is byteA: the view the
\* holder actually gets.
ObserveShares ==
    /\ secrecy.phase = "choosing"
    /\ Cardinality(secrecy.xs) = secrecy.threshold - 1
    /\ \E a \in SecretBytes, seed \in 0..MaxSeed, idx \in 1..MaxSecretLen :
         secrecy' = [secrecy EXCEPT !.phase = "observed", !.byteA = a,
                        !.seed = seed, !.idx = idx,
                        !.view = ShareView(a, secrecy.threshold,
                                    SplitCoefficients(seed, secrecy.threshold, idx),
                                    SortedSeq(secrecy.xs))]
    /\ UNCHANGED <<shamir, rs, pipe, container, cmd, stego, keybuf>>

\* Every view of the smallest candidate secret byte and of another candidate
\* byte is enumerated; the two sets are compared, and every view a Split hands
\* out is looked up among the views of the other byte.
CompareViews ==
    /\ secrecy.phase = "choosing"
    /\ Cardinality(secrecy.xs) = secrecy.threshold - 1
    /\ \E xs \in {SortedSeq(secrecy.xs)} :
       \E a \in {CHOOSE b \in SecretBytes : \A c \in SecretBytes : b <= c} :
       \E viewsA \in {ViewSet(a, secrecy.threshold, xs)} :
       \E b \in SecretBytes \ {a} :
       \E viewsB \in {ViewSet(b, secrecy.threshold, xs)} :
          secrecy' = [secrecy EXCEPT !.phase = "compared",
             !.byteA = a, !.byteB = b,
             !.same = (viewsA = viewsB),
             !.consistent =
                \A s \in SecretBytes, seed \in 0..MaxSeed, idx \in 1..MaxSecretLen :
                   ShareView(s, secrecy.threshold,
                             SplitCoefficients(seed, secrecy.threshold, idx), xs)
                     \in viewsB]
    /\ UNCHANGED <<shamir, rs, pipe, container, cmd, stego, keybuf>>

SecrecyNext == ChooseShare \/ ObserveShares \/ CompareViews

SpecSecrecy == SecrecyInit /\ [][SecrecyNext]_vars

\* C2: for threshold-1 shares at any distinct x-coordinates, the set of values
\* the shares can take over all random coefficients is the same for every
\* value of the secret byte, so the shares any Split hands out, of any secret
\* byte at any position, are among the values another secret byte can produce.
C2_SharesRevealNothing ==
    secrecy.phase = "compared" => (secrecy.same /\ secrecy.consistent)

C2_Witness ==
    /\ secrecy.phase = "compared"
    /\ secrecy.threshold = 3
    /\ secrecy.xs = {1, 3}
    /\ secrecy.byteA = 0 /\ secrecy.byteB = 255
    /\ secrecy.same /\ secrecy.consistent

(***************************************************************************)
(* pkg/sharding: Reed-Solomon over GF(2^8) as github.com/klauspost/        *)
(* reedsolomon computes it: polynomial x^8 + x^4 + x^3 + x^2 + 1,          *)
(* generator 2, and the systematic matrix derived from the Vandermonde     *)
(* matrix with rows 0..total-1, under which shard r is the value at the    *)
(* point r of the polynomial through the data shards at 0..threshold-1.    *)
(***************************************************************************)
MaxPayloadLen == 3

PayloadBytes == {0, 255}

RSPoly == 285
RSGenerator == 2

rsExpTable == [i \in 0..254 |-> gfPowSlow(RSGenerator, i, RSPoly)]

rsLogTable ==
    [a \in Byte |-> IF a = 0 THEN 0 ELSE CHOOSE i \in 0..254 : rsExpTable[i] = a]

rsMul(a, b) ==
    IF a = 0 \/ b = 0 THEN 0
    ELSE rsExpTable[(rsLogTable[a] + rsLogTable[b]) % 255]

rsDiv(a, b) ==
    IF a = 0 THEN 0
    ELSE rsExpTable[(rsLogTable[a] - rsLogTable[b] + 255) % 255]

\* The weight of the shard at point pts[i] in the shard at point x.
RECURSIVE rsBasis(_, _, _, _)
rsBasis(pts, x, i, j) ==
    IF j > Len(pts) THEN 1
    ELSE IF j = i THEN rsBasis(pts, x, i, j + 1)
    ELSE rsMul(rsDiv(add(x, pts[j]), add(pts[i], pts[j])),
               rsBasis(pts, x, i, j + 1))

RECURSIVE rsDot(_, _, _)
rsDot(coef, ys, k) ==
    IF k > Len(coef) THEN 0
    ELSE add(rsMul(coef[k], ys[k]), rsDot(coef, ys, k + 1))

\* The shard at point x computed from the shards rows at the points pts.
rsShardAt(pts, rows, x, size) ==
    LET coef == [i \in 1..Len(pts) |-> rsBasis(pts, x, i, 1)]
    IN  [b \in 1..size |-> rsDot(coef, [i \in 1..Len(pts) |-> rows[i][b]], 1)]

\* reedsolomon.New(dataShards, parityShards)
rsNew(dataShards, parityShards) ==
    IF dataShards <= 0 \/ parityShards < 0 THEN "cannot create Encoder with less than one data shard or less than zero parity shards"
    ELSE IF dataShards + parityShards > 256 THEN "cannot create Encoder with more than 256 data+parity shards"
    ELSE ""

\* enc.Split: threshold data shards of ceil(len/threshold) bytes, the last
\* ones padded with zeros, and total-threshold parity shards still zero.
rsSplit(data, total, threshold) ==
    LET perShard == (Len(data) + threshold - 1) \div threshold
        at(k)    == IF k <= Len(data) THEN data[k] ELSE 0
    IN  [i \in 1..total |->
            [b \in 1..perShard |->
                IF i <= threshold THEN at((i - 1) * perShard + b) ELSE 0]]

\* enc.Encode: fills the parity shards.
rsEncode(shards, total, threshold) ==
    LET pts  == [i \in 1..threshold |-> i - 1]
        rows == SubSeq(shards, 1, threshold)
    IN  [i \in 1..total |->
            IF i <= threshold THEN shards[i]
            ELSE rsShardAt(pts, rows, i - 1, Len(shards[1]))]

\* enc.Reconstruct: a shard of length 0 is missing; the missing shards are
\* rebuilt from the first threshold shards present.
rsReconstruct(shards, total, threshold) ==
    LET present == {i \in 1..Len(shards) : Len(shards[i]) # 0}
        sizes   == {Len(shards[i]) : i \in present}
    IN  IF Len(shards) < total THEN [err |-> "too few shards given", shards |-> shards]
        ELSE IF present = {} THEN [err |-> "no shard data", shards |-> shards]
        ELSE IF Cardinality(sizes) > 1 THEN [err |-> "shard sizes do not match", shards |-> shards]
        ELSE IF Cardinality(present) = total THEN [err |-> "", shards |-> shards]
        ELSE IF Cardinality(present) < threshold THEN [err |-> "too few shards given", shards |-> shards]
        ELSE
          LET order == SortedSeq(present)
              pts   == [k \in 1..threshold |-> order[k] - 1]
              rows  == [k \in 1..threshold |-> shards[order[k]]]
              size  == Len(rows[1])
          IN  [err |-> "",
               shards |-> [i \in 1..total |->
                             IF i \in present THEN shards[i]
                             ELSE rsShardAt(pts, rows, i - 1, size)]]

NewSplitter(total, threshold) ==
    IF threshold > total THEN "threshold cannot exceed total shards" ELSE ""

\* Splitter.Split: the shards carry the 0-based Index.
SplitterSplit(data, total, threshold) ==
    LET newErr == rsNew(threshold, total - threshold)
    IN  IF newErr # "" THEN [err |-> newErr, shards |-> <<>>]
        ELSE IF Len(data) = 0 THEN [err |-> "not enough data to fill the number of requested shards", shards |-> <<>>]
        ELSE LET shardsBytes == rsEncode(rsSplit(data, total, threshold), total, threshold)
             IN  [err |-> "",
                  shards |-> [i \in 1..total |-> [Index |-> i - 1, Data |-> shardsBytes[i]]]]

\* Join's loop run over every shard, parity included.
RECURSIVE concatEveryShard(_, _)
concatEveryShard(shards, threshold) ==
    IF shards = <<>> THEN <<>>
    ELSE Head(shards) \o concatEveryShard(Tail(shards), threshold)

\* Join's loop: the data shards 0..threshold-1 one after the other.
concatDataShards(shards, threshold) ==
    concatEveryShard(SubSeq(shards, 1, threshold), threshold)

\* Splitter.Join: shards is a map from Index to bytes.
SplitterJoin(shards, originalSize, total, threshold) ==
    LET reconstructShards == [i \in 1..total |->
                                 IF (i - 1) \in DOMAIN shards THEN shards[i - 1] ELSE <<>>]
        validCount == Cardinality({i \in 0..(total - 1) : i \in DOMAIN shards})
        fail(err)  == [err |-> err, data |-> <<>>]
    IN  With(rsNew(threshold, total - threshold), LAMBDA newErr :
        IF newErr # "" THEN fail(newErr)
        ELSE IF validCount < threshold THEN fail("not enough shards to reconstruct")
        ELSE With(rsReconstruct(reconstructShards, total, threshold), LAMBDA r :
        IF r.err # "" THEN fail("reconstruction failed")
        ELSE IF \E i \in 1..threshold : Len(r.shards[i]) = 0
        THEN fail("unexpected empty shard")
        ELSE With(concatDataShards(r.shards, threshold), LAMBDA joined :
        IF originalSize > 0
        THEN IF Len(joined) < originalSize
             THEN fail("reconstructed data shorter than expected size")
             ELSE [err |-> "", data |-> SubSeq(joined, 1, originalSize)]
        ELSE [err |-> "", data |-> joined])))

(***************************************************************************)
(* Specification SpecRS: a payload is split into shards and some of them   *)
(* are joined.                                                             *)
(***************************************************************************)
Payloads == SeqsOf(PayloadBytes, 0, MaxPayloadLen)

RSInit ==
    /\ rs \in {[phase |-> "start", payload |-> p, total |-> n, threshold |-> t,
                shards |-> <<>>, have |-> {}, originalSize |-> 0,
                result |-> [err |-> "", data |-> <<>>]] :
                   p \in Payloads, n \in 1..MaxParts, t \in 1..MaxParts}
    /\ NewSplitter(rs.total, rs.threshold) = ""
    /\ shamir = Idle /\ secrecy = Idle /\ pipe = Idle /\ container = Idle /\ cmd = Idle
    /\ stego = Idle /\ keybuf = Idle

DoRSSplit ==
    /\ rs.phase = "start"
    /\ \E r \in {SplitterSplit(rs.payload, rs.total, rs.threshold)} :
         rs' = [rs EXCEPT !.phase = IF r.err = "" THEN "split" ELSE "failed",
                          !.shards = r.shards,
                          !.result = [err |-> r.err, data |-> <<>>]]
    /\ UNCHANGED <<shamir, secrecy, pipe, container, cmd, stego, keybuf>>

\* The caller keeps the shards with Index in have and passes them keyed by
\* Index, with originalSize either 0 or the payload length.
DoRSJoin ==
    /\ rs.phase = "split"
    /\ \E have \in SUBSET (0..(rs.total - 1)), size \in {0, Len(rs.payload)} :
         LET shards == [i \in have |-> rs.shards[i + 1].Data]
         IN  rs' = [rs EXCEPT !.phase = "joined", !.have = have,
                       !.originalSize = size,
                       !.result = SplitterJoin(shards, size, rs.total, rs.threshold)]
    /\ UNCHANGED <<shamir, secrecy, pipe, container, cmd, stego, keybuf>>

RSNext == DoRSSplit \/ DoRSJoin

SpecRS == RSInit /\ [][RSNext]_vars

\* The payload followed by zero bytes up to the next multiple of t.
ZeroPadded(p, t) ==
    LET size == ((Len(p) + t - 1) \div t) * t
    IN  [k \in 1..size |-> IF k <= Len(p) THEN p[k] ELSE 0]

\* C7: Split of a non-empty payload yields total equal-length shards with
\* Index 0..total-1; Join of at least threshold of them, keyed by Index,
\* returns the payload followed by zero padding up to the next multiple of
\* threshold when originalSize is 0, and exactly the payload when
\* originalSize is the payload length.
C7_ReedSolomonReconstruction ==
    /\ (rs.phase = "start" /\ Len(rs.payload) > 0) =>
          SplitterSplit(rs.payload, rs.total, rs.threshold).err = ""
    /\ rs.phase \in {"split", "joined"} =>
          /\ Len(rs.shards) = rs.total
          /\ \A i \in 1..rs.total :
                /\ rs.shards[i].Index = i - 1
                /\ Len(rs.shards[i].Data) = Len(rs.shards[1].Data)
    /\ (rs.phase = "joined" /\ Cardinality(rs.have) >= rs.threshold) =>
          /\ rs.result.err = ""
          /\ rs.result.data = IF rs.originalSize = 0
                              THEN ZeroPadded(rs.payload, rs.threshold)
                              ELSE rs.payload

C7_Witness ==
    /\ rs.phase = "joined"
    /\ rs.total = 3 /\ rs.threshold = 2
    /\ rs.payload = <<255, 0, 255>>
    /\ rs.have = {1, 2}
    /\ rs.originalSize = 0
    /\ rs.result.data = <<255, 0, 255, 0>>

(***************************************************************************)
(* pkg/compression: a gzip frame.  The deflate stream is one stored block  *)
(* and the CRC-32 of the trailer is stood for by a 32-bit checksum.        *)
(***************************************************************************)
\* n as width little-endian bytes, for 0 <= n < 2^24.
LEBytes(n, width) ==
    [i \in 1..width |->
        IF i = 1 THEN n % 256
        ELSE IF i = 2 THEN (n \div 256) % 256
        ELSE IF i = 3 THEN (n \div 65536) % 256
        ELSE 0]

\* A length no byte string of the model has.
HugeLen == 16777216

\* The number that little-endian bytes stand for, HugeLen if it is 2^24 or more.
LEValue(b) ==
    IF \E i \in 4..Len(b) : b[i] # 0 THEN HugeLen
    ELSE b[1] + 256 * b[2] + 65536 * b[3]

\* multiplier^e modulo modulus, for modulus below 46341.
RECURSIVE ModPow(_, _, _)
ModPow(multiplier, e, modulus) ==
    IF e = 0 THEN 1
    ELSE LET h  == ModPow(multiplier, e \div 2, modulus)
             h2 == (h * h) % modulus
         IN  IF e % 2 = 1 THEN (h2 * multiplier) % modulus ELSE h2

\* A polynomial hash of data[lo..hi] in 0..modulus-1.
RECURSIVE Digest(_, _, _, _, _)
Digest(data, lo, hi, multiplier, modulus) ==
    IF lo > hi THEN 0
    ELSE IF lo = hi THEN (data[lo] + 1) % modulus
    ELSE LET mid == (lo + hi) \div 2
         IN  (Digest(data, lo, mid, multiplier, modulus)
                 * ModPow(multiplier, hi - mid, modulus)
              + Digest(data, mid + 1, hi, multiplier, modulus)) % modulus

Checksum32(data) ==
    LEBytes(Digest(data, 1, Len(data), 251, 46337), 2)
        \o LEBytes(Digest(data, 1, Len(data), 241, 46327), 2)

\* ID1 ID2 CM FLG MTIME(4) XFL OS, as gzip.NewWriterLevel(BestSpeed) writes them.
GzipHeader == <<31, 139, 8, 0, 0, 0, 0, 0, 4, 255>>

Compress(data) ==
    LET n == Len(data)
    IN  GzipHeader
        \o <<1>> \o LEBytes(n, 2) \o LEBytes(65535 - n, 2) \o data
        \o Checksum32(data) \o LEBytes(n, 4)

Decompress(data) ==
    LET n    == Len(data) - 23
        body == SubSeq(data, 16, 15 + n)
    IN  IF Len(data) < 10 THEN [err |-> "unexpected EOF", data |-> <<>>]
        ELSE IF SubSeq(data, 1, 3) # SubSeq(GzipHeader, 1, 3) \/ data[4] # 0
             THEN [err |-> "gzip: invalid header", data |-> <<>>]
        ELSE IF n < 0 THEN [err |-> "unexpected EOF", data |-> <<>>]
        ELSE IF data[11] # 1
                \/ LEValue(SubSeq(data, 12, 13) \o <<0>>) # n
                \/ LEValue(SubSeq(data, 14, 15) \o <<0>>) # 65535 - n
             THEN [err |-> "flate: corrupt input", data |-> <<>>]
        ELSE IF SubSeq(data, 16 + n, 19 + n) # Checksum32(body)
                \/ SubSeq(data, 20 + n, 23 + n) # LEBytes(n, 4)
             THEN [err |-> "gzip: invalid checksum", data |-> <<>>]
        ELSE [err |-> "", data |-> body]

(***************************************************************************)
(* pkg/crypto/encryptor: AES-GCM.  The cipher is stood for by a keystream  *)
(* and a 16-byte tag that are functions of key, nonce and ciphertext.      *)
(***************************************************************************)
NonceSize == 12
TagSize == 16

aesNewCipher(key) ==
    IF Len(key) \in {16, 24, 32} THEN "" ELSE "crypto/aes: invalid key size"

gcmKeystream(key, nonce, size) ==
    LET k == Digest(key, 1, Len(key), 239, 46337)
        v == Digest(nonce, 1, Len(nonce), 233, 46327)
    IN  [i \in 1..size |-> (k + v * 3 + ((k % 251) + 1) * i + (v % 241) * i * i) % 256]

gcmTag(key, nonce, ciphertext) ==
    LET m1 == key \o nonce \o ciphertext
        m2 == ciphertext \o nonce \o key
        d1 == Digest(m1, 1, Len(m1), 251, 46337)
        d2 == Digest(m2, 1, Len(m2), 241, 46327)
    IN  [j \in 1..TagSize |-> (((d1 % 4093) + j) * ((d2 % 4091) + 2 * j + 1) + (d1 \div 256)) % 256]

\* gcm.Seal(nil, nonce, plaintext, nil)
gcmSeal(key, nonce, plaintext) ==
    LET ks == gcmKeystream(key, nonce, Len(plaintext))
        ct == [i \in 1..Len(plaintext) |-> add(plaintext[i], ks[i])]
    IN  ct \o gcmTag(key, nonce, ct)

\* gcm.Open(nil, nonce, ciphertext, nil)
gcmOpen(key, nonce, ciphertext) ==
    LET n  == Len(ciphertext) - TagSize
        ct == SubSeq(ciphertext, 1, n)
        ks == gcmKeystream(key, nonce, n)
    IN  IF n < 0 \/ SubSeq(ciphertext, n + 1, n + TagSize) # gcmTag(key, nonce, ct)
        THEN [err |-> "cipher: message authentication failed", data |-> <<>>]
        ELSE [err |-> "", data |-> [i \in 1..n |-> add(ct[i], ks[i])]]

\* The nonce that crypto/rand hands out under the random stream seed.
RandNonce(seed) == [i \in 1..NonceSize |-> RandByte(seed, 200 + i)]

Encrypt(plaintext, key, seed) ==
    IF aesNewCipher(key) # "" THEN [err |-> "failed to create cipher block", data |-> <<>>]
    ELSE LET nonce == RandNonce(seed)
         IN  [err |-> "", data |-> nonce \o gcmSeal(key, nonce, plaintext)]

\* Decrypt that hands out what the keystream yields without a look at the tag.
DecryptUnauthenticated(ciphertext, key) ==
    IF aesNewCipher(key) # "" THEN [err |-> "failed to create cipher block", data |-> <<>>]
    ELSE IF Len(ciphertext) < NonceSize + TagSize
    THEN [err |-> "ciphertext too short", data |-> <<>>]
    ELSE LET n  == Len(ciphertext) - NonceSize - TagSize
             ks == gcmKeystream(key, SubSeq(ciphertext, 1, NonceSize), n)
         IN  [err |-> "", data |-> [i \in 1..n |-> add(ciphertext[NonceSize + i], ks[i])]]

Decrypt(ciphertext, key) ==
    IF aesNewCipher(key) # "" THEN [err |-> "failed to create cipher block", data |-> <<>>]
    ELSE IF Len(ciphertext) < NonceSize THEN [err |-> "ciphertext too short", data |-> <<>>]
    ELSE LET opened == gcmOpen(key, SubSeq(ciphertext, 1, NonceSize),
                               SubSeq(ciphertext, NonceSize + 1, Len(ciphertext)))
         IN  IF opened.err # ""
             THEN [err |-> "decryption/authentication failed", data |-> <<>>]
             ELSE opened

(***************************************************************************)
(* pkg/pipeline.                                                           *)
(***************************************************************************)
SplitPipeline(input, key, total, threshold, seed) ==
    LET compressedBytes == Compress(input)
        enc             == Encrypt(compressedBytes, key, seed)
        payload         == LEBytes(Len(enc.data), 8) \o enc.data
        newErr          == NewSplitter(total, threshold)
        split           == SplitterSplit(payload, total, threshold)
    IN  IF enc.err # "" THEN [err |-> "encryption failed", shards |-> <<>>]
        ELSE IF newErr # "" THEN [err |-> "failed to initialize splitter", shards |-> <<>>]
        ELSE IF split.err # "" THEN [err |-> "sharding failed", shards |-> <<>>]
        ELSE split

\* The ciphertext taken to be everything after the length prefix.
cipherTextUnstripped(joinedBytes) ==
    [err |-> "", data |-> SubSeq(joinedBytes, 9, Len(joinedBytes))]

\* The guard written as 8 + originalLen > len(joinedBytes), the sum taken
\* modulo 2^64.
cipherTextOfWrapping(joinedBytes) ==
    LET b     == SubSeq(joinedBytes, 1, 8)
        wraps == b[1] >= 248 /\ \A i \in 2..8 : b[i] = 255
        end   == IF wraps THEN b[1] - 248 ELSE 8 + LEValue(b)
    IN  IF end > Len(joinedBytes)
        THEN [err |-> "reconstructed data is shorter than expected length", data |-> <<>>]
        ELSE [err |-> "", data |-> SubSeq(joinedBytes, 9, end)]

\* The ciphertext that the length prefix of the joined bytes delimits.
cipherTextOf(joinedBytes) ==
    LET originalLen == LEValue(SubSeq(joinedBytes, 1, 8))
    IN  IF Len(joinedBytes) - 8 < originalLen
        THEN [err |-> "reconstructed data is shorter than expected length", data |-> <<>>]
        ELSE [err |-> "", data |-> SubSeq(joinedBytes, 9, 8 + originalLen)]

\* stage: the last step JoinPipeline entered.
JoinPipeline(shards, key, total, threshold) ==
    LET fail(err, stage) == [err |-> err, data |-> <<>>, stage |-> stage]
    IN  With(NewSplitter(total, threshold), LAMBDA newErr :
        IF newErr # "" THEN fail(newErr, "splitter")
        ELSE With(SplitterJoin(shards, 0, total, threshold), LAMBDA joined :
        IF joined.err # "" THEN fail("reconstruction failed", "join")
        ELSE IF Len(joined.data) < 8
        THEN fail("reconstructed data is too short to contain length prefix", "prefix")
        ELSE With(cipherTextOf(joined.data), LAMBDA ct :
        IF ct.err # "" THEN fail(ct.err, "prefix")
        ELSE With(Decrypt(ct.data, key), LAMBDA dec :
        IF dec.err # "" THEN fail("decryption failed (integrity check)", "decrypt")
        ELSE With(Decompress(dec.data), LAMBDA plain :
        IF plain.err # "" THEN fail("decompression failed", "decompress")
        ELSE [err |-> "", data |-> plain.data, stage |-> "done"])))))

(***************************************************************************)
(* Specification SpecPipeline: an input is split into shards under a key   *)
(* and some of the shards are joined under a key.                          *)
(***************************************************************************)
MaxInputLen == 2

Inputs == SeqsOf(PayloadBytes, 0, MaxInputLen)

\* The key of length size that the random stream seed yields.
KeyOf(seed, size) == [i \in 1..size |-> RandByte(seed, 100 + i)]

PipeKeys == {KeyOf(1, size) : size \in {15, 16, 24, 32}}

PipeInit ==
    /\ pipe \in {[phase |-> "start", input |-> p, key |-> k, total |-> n,
                  threshold |-> t, shards |-> <<>>, have |-> {}, joinKey |-> <<>>,
                  result |-> [err |-> "", data |-> <<>>, stage |-> "none"]] :
                    p \in Inputs, k \in PipeKeys, n \in 1..MaxParts, t \in 1..MaxParts}
    /\ pipe.threshold <= pipe.total
    /\ shamir = Idle /\ secrecy = Idle /\ rs = Idle /\ container = Idle /\ cmd = Idle
    /\ stego = Idle /\ keybuf = Idle

DoSplitPipeline ==
    /\ pipe.phase = "start"
    /\ \E seed \in 0..MaxSeed :
       \E r \in {SplitPipeline(pipe.input, pipe.key, pipe.total, pipe.threshold, seed)} :
         pipe' = [pipe EXCEPT !.phase = IF r.err = "" THEN "split" ELSE "failed",
                              !.shards = r.shards,
                              !.result = [err |-> r.err, data |-> <<>>, stage |-> "none"]]
    /\ UNCHANGED <<shamir, secrecy, rs, container, cmd, stego, keybuf>>

\* The caller keeps the shards with Index in have, passes them keyed by Index,
\* and gives either the key of the split or another key of the same length.
DoJoinPipeline ==
    /\ pipe.phase = "split"
    /\ \E have \in SUBSET (0..(pipe.total - 1)),
          k \in {pipe.key, KeyOf(2, Len(pipe.key))} :
         LET shards == [i \in have |-> pipe.shards[i + 1].Data]
         IN  pipe' = [pipe EXCEPT !.phase = "joined", !.have = have, !.joinKey = k,
                         !.result = JoinPipeline(shards, k, pipe.total, pipe.threshold)]
    /\ UNCHANGED <<shamir, secrecy, rs, container, cmd, stego, keybuf>>

PipeNext == DoSplitPipeline \/ DoJoinPipeline

SpecPipeline == PipeInit /\ [][PipeNext]_vars

\* C6: JoinPipeline given at least threshold shards of SplitPipeline(P, k),
\* keyed by Index, with the same key, total and threshold returns exactly P,
\* whether or not Reed-Solomon padded the length-prefixed ciphertext.
C6_PipelineRoundTrip ==
    /\ (pipe.phase = "failed") => aesNewCipher(pipe.key) # ""
    /\ (/\ pipe.phase = "joined"
        /\ Cardinality(pipe.have) >= pipe.threshold
        /\ pipe.joinKey = pipe.key)
          => (pipe.result.err = "" /\ pipe.result.data = pipe.input)

\* A join of two of three shards, the first data shard missing, where the
\* data shards hold a byte of padding after the length-prefixed ciphertext.
C6_Witness ==
    /\ pipe.phase = "joined"
    /\ pipe.total = 3 /\ pipe.threshold = 2
    /\ pipe.have = {1, 2}
    /\ pipe.joinKey = pipe.key
    /\ Len(pipe.input) = 2
    /\ pipe.threshold * Len(pipe.shards[1].Data) > 8 + NonceSize + TagSize + Len(Compress(pipe.input))
    /\ pipe.result.err = "" /\ pipe.result.data = pipe.input

(***************************************************************************)
(* pkg/format: the horcrux container.  Text is held as its bytes.          *)
(***************************************************************************)
\* "-- HEADER --"
HeaderMarker == <<45, 45, 32, 72, 69, 65, 68, 69, 82, 32, 45, 45>>

\* "-- BODY --"
BodyMarker == <<45, 45, 32, 66, 79, 68, 89, 32, 45, 45>>

\* The pieces of MagicHeader around its three %d verbs.
MagicHeader1 ==
    <<35, 32, 84, 72, 73, 83, 32, 70, 73, 76, 69, 32, 73, 83, 32, 65, 32,
       72, 79, 82, 67, 82, 85, 88, 46, 10, 35, 32, 73, 84, 32, 73, 83, 32,
       79, 78, 69, 32, 79, 70, 32>>
MagicHeader2 ==
    <<32, 72, 79, 82, 67, 82, 85, 88, 69, 83, 32, 84, 72, 65, 84, 32, 69,
       65, 67, 72, 32, 67, 79, 78, 84, 65, 73, 78, 32, 80, 65, 82, 84, 32,
       79, 70, 32, 65, 78, 32, 79, 82, 73, 71, 73, 78, 65, 76, 32, 70, 73,
       76, 69, 46, 10, 35, 32, 84, 72, 73, 83, 32, 73, 83, 32, 72, 79, 82,
       67, 82, 85, 88, 32, 78, 85, 77, 66, 69, 82, 32>>
MagicHeader3 ==
    <<46, 10, 35, 32, 73, 78, 32, 79, 82, 68, 69, 82, 32, 84, 79, 32, 82,
       69, 83, 85, 82, 82, 69, 67, 84, 32, 84, 72, 73, 83, 32, 79, 82, 73,
       71, 73, 78, 65, 76, 32, 70, 73, 76, 69, 32, 89, 79, 85, 32, 77, 85,
       83, 84, 32, 70, 73, 78, 68, 32, 84, 72, 69, 32, 79, 84, 72, 69, 82,
       32>>
MagicHeader4 ==
    <<32, 72, 79, 82, 67, 82, 85, 88, 40, 69, 83, 41, 10, 35, 32, 65, 78,
       68, 32, 66, 73, 78, 68, 32, 84, 72, 69, 77, 32, 85, 83, 73, 78, 71,
       32, 84, 72, 69, 32, 80, 82, 79, 71, 82, 65, 77, 32, 70, 79, 85, 78,
       68, 32, 65, 84, 58, 10, 35, 32, 104, 116, 116, 112, 115, 58, 47,
       47, 103, 105, 116, 104, 117, 98, 46, 99, 111, 109, 47, 66, 101, 97,
       115, 116, 108, 121, 55, 49, 51, 47, 104, 111, 114, 99, 114, 117,
       120, 10>>

\* The concatenation of the byte strings f[lo], ..., f[hi].
RECURSIVE ConcatAll(_, _, _)
ConcatAll(f, lo, hi) ==
    IF lo > hi THEN <<>>
    ELSE IF lo = hi THEN f[lo]
    ELSE LET mid == (lo + hi) \div 2
         IN  ConcatAll(f, lo, mid) \o ConcatAll(f, mid + 1, hi)

\* %d of fmt and the integers of encoding/json.
RECURSIVE DecimalDigits(_)
DecimalDigits(n) ==
    IF n < 10 THEN <<48 + n>> ELSE Append(DecimalDigits(n \div 10), 48 + (n % 10))

Decimal(n) == IF n < 0 THEN <<45>> \o DecimalDigits(-n) ELSE DecimalDigits(n)

\* Header.Validate
Validate(h) ==
    IF h.Index < 1 \/ h.Index > h.Total THEN "invalid index"
    ELSE IF h.Threshold < 2 \/ h.Threshold > h.Total THEN "invalid threshold"
    ELSE IF Len(h.KeyFragment) = 0 THEN "header is missing key fragment"
    ELSE IF Len(h.OriginalFilename) = 0 THEN "header is missing original filename"
    ELSE ""

\* The number of bytes of the well-formed UTF-8 encoding that starts at s[i]:
\* 1 for ASCII, 2..4 for a multi-byte encoding, 0 if s[i] starts none.
utf8Width(s, i) ==
    LET b      == s[i]
        at(k)  == IF i + k <= Len(s) THEN s[i + k] ELSE 0
        cont(k) == at(k) \in 128..191
    IN  IF b < 128 THEN 1
        ELSE IF b \in 194..223 /\ cont(1) THEN 2
        ELSE IF b = 224 /\ at(1) \in 160..191 /\ cont(2) THEN 3
        ELSE IF b \in (225..236) \cup {238, 239} /\ cont(1) /\ cont(2) THEN 3
        ELSE IF b = 237 /\ at(1) \in 128..159 /\ cont(2) THEN 3
        ELSE IF b = 240 /\ at(1) \in 144..191 /\ cont(2) /\ cont(3) THEN 4
        ELSE IF b \in 241..243 /\ cont(1) /\ cont(2) /\ cont(3) THEN 4
        ELSE IF b = 244 /\ at(1) \in 128..143 /\ cont(2) /\ cont(3) THEN 4
        ELSE 0

\* Whether s[i] is a later byte of a well-formed multi-byte encoding.
utf8Inside(s, i) ==
    \E q \in 1..(i - 1) : i - q <= 3 /\ utf8Width(s, q) > i - q

\* U+FFFD in UTF-8.
ReplacementChar == <<239, 191, 189>>

HexDigit(d) == IF d < 10 THEN 48 + d ELSE 87 + d

\* encoding/json: the bytes that stand for s[i] in a string literal (HTML
\* escaping on, invalid UTF-8 coerced to U+FFFD).
jsonEscapeAt(s, i) ==
    LET b == s[i]
        w == utf8Width(s, i)
    IN  IF utf8Inside(s, i) THEN <<>>
        ELSE IF b = 34 THEN <<92, 34>>
        ELSE IF b = 92 THEN <<92, 92>>
        ELSE IF b = 10 THEN <<92, 110>>
        ELSE IF b = 13 THEN <<92, 114>>
        ELSE IF b = 9 THEN <<92, 116>>
        ELSE IF b < 32 \/ b \in {60, 62, 38}
             THEN <<92, 117, 48, 48, HexDigit(b \div 16), HexDigit(b % 16)>>
        ELSE IF b < 128 THEN <<b>>
        ELSE IF w = 0 THEN <<92, 117, 102, 102, 102, 100>>
        ELSE IF w = 3 /\ b = 226 /\ s[i + 1] = 128 /\ s[i + 2] \in {168, 169}
             THEN <<92, 117, 50, 48, 50, HexDigit(s[i + 2] - 160)>>
        ELSE SubSeq(s, i, i + w - 1)

jsonString(s) ==
    <<34>> \o ConcatAll([i \in 1..Len(s) |-> jsonEscapeAt(s, i)], 1, Len(s)) \o <<34>>

\* base64.StdEncoding: the alphabet, and its inverse (64 for '=', 65 for a
\* byte outside the alphabet).
b64Char(v) ==
    IF v < 26 THEN 65 + v
    ELSE IF v < 52 THEN 71 + v
    ELSE IF v < 62 THEN v - 4
    ELSE IF v = 62 THEN 43 ELSE 47

b64Value(c) ==
    IF c \in 65..90 THEN c - 65
    ELSE IF c \in 97..122 THEN c - 71
    ELSE IF c \in 48..57 THEN c + 4
    ELSE IF c = 43 THEN 62
    ELSE IF c = 47 THEN 63
    ELSE IF c = 61 THEN 64 ELSE 65

b64Encode(data) ==
    LET n == Len(data)
        at(k) == IF k <= n THEN data[k] ELSE 0
        group(g) == at(3 * g + 1) * 65536 + at(3 * g + 2) * 256 + at(3 * g + 3)
        sextet(g, r) ==
            IF r = 0 THEN group(g) \div 262144
            ELSE IF r = 1 THEN (group(g) \div 4096) % 64
            ELSE IF r = 2 THEN (group(g) \div 64) % 64
            ELSE group(g) % 64
    IN  [k \in 1..(4 * ((n + 2) \div 3)) |->
            LET g == (k - 1) \div 4
                r == (k - 1) % 4
            IN  IF r >= 2 /\ 3 * g + r > n THEN 61 ELSE b64Char(sextet(g, r))]

\* ok is FALSE for text that is no padded base64.
b64Decode(text) ==
    LET n    == Len(text)
        v(k) == b64Value(text[k])
        pad  == IF n = 0 THEN 0
                ELSE IF v(n) = 64 /\ v(n - 1) = 64 THEN 2
                ELSE IF v(n) = 64 THEN 1 ELSE 0
        group(g) == v(4 * g + 1) * 262144 + v(4 * g + 2) * 4096
                      + (v(4 * g + 3) % 64) * 64 + (v(4 * g + 4) % 64)
    IN  IF n % 4 # 0 \/ (\E k \in 1..(n - pad) : v(k) >= 64)
        THEN [ok |-> FALSE, data |-> <<>>]
        ELSE [ok |-> TRUE,
              data |-> [k \in 1..(3 * (n \div 4) - pad) |->
                          LET g == (k - 1) \div 3
                              r == (k - 1) % 3
                          IN  IF r = 0 THEN group(g) \div 65536
                              ELSE IF r = 1 THEN (group(g) \div 256) % 256
                              ELSE group(g) % 256]]

\* json.Marshal(header)
MarshalHeader(h) ==
    <<123, 34, 111, 114, 105, 103, 105, 110, 97, 108, 70, 105, 108, 101,
       110, 97, 109, 101, 34, 58>> \o jsonString(h.OriginalFilename)
    \o <<44, 34, 116, 105, 109, 101, 115, 116, 97, 109, 112, 34, 58>> \o Decimal(h.Timestamp)
    \o <<44, 34, 105, 110, 100, 101, 120, 34, 58>> \o Decimal(h.Index)
    \o <<44, 34, 116, 111, 116, 97, 108, 34, 58>> \o Decimal(h.Total)
    \o <<44, 34, 116, 104, 114, 101, 115, 104, 111, 108, 100, 34, 58>> \o Decimal(h.Threshold)
    \o <<44, 34, 107, 101, 121, 70, 114, 97, 103, 109, 101, 110, 116, 34,
       58>>
    \o (IF Len(h.KeyFragment) = 0 THEN <<110, 117, 108, 108>>
        ELSE <<34>> \o b64Encode(h.KeyFragment) \o <<34>>)
    \o <<125>>

\* Writer.Write with headerless = false.
WriteFramed(header, content) ==
    IF Validate(header) # "" THEN [err |-> "invalid header", out |-> <<>>]
    ELSE [err |-> "",
          out |-> MagicHeader1 \o Decimal(header.Total)
                  \o MagicHeader2 \o Decimal(header.Index)
                  \o MagicHeader3 \o Decimal(header.Threshold - 1)
                  \o MagicHeader4
                  \o HeaderMarker \o <<10>>
                  \o MarshalHeader(header) \o <<10>>
                  \o BodyMarker \o <<10>>
                  \o content]

\* Write that frames the content whatever the headerless flag says.
WriterWriteAlwaysFramed(header, content, headerless) == WriteFramed(header, content)

\* Writer.Write
WriterWrite(header, content, headerless) ==
    IF headerless THEN [err |-> "", out |-> content]
    ELSE WriteFramed(header, content)

\* strings.TrimSpace, for the white space of ASCII.
TrimSpace(line) ==
    LET space == {9, 10, 11, 12, 13, 32}
        n     == Len(line)
        first == CHOOSE i \in 1..(n + 1) :
                    /\ i = n + 1 \/ line[i] \notin space
                    /\ \A j \in 1..(i - 1) : line[j] \in space
        last  == CHOOSE i \in 0..n :
                    /\ i = 0 \/ line[i] \notin space
                    /\ \A j \in (i + 1)..n : line[j] \in space
    IN  SubSeq(line, first, last)

\* The positions of the newline bytes of data, in increasing order: the k-th
\* ReadString('\n') that succeeds ends at the k-th of them.
LineEnds(data) == SortedSeq({i \in 1..Len(data) : data[i] = 10})

LineOf(data, ends, k) ==
    SubSeq(data, IF k = 1 THEN 1 ELSE ends[k - 1] + 1, ends[k])

\* markerLine that is content with a line that starts with the marker.
markerLinePrefix(data, ends, from, to, marker) ==
    LET found == {k \in from..to :
                    LET line == TrimSpace(LineOf(data, ends, k))
                    IN  Len(line) >= Len(marker) /\ SubSeq(line, 1, Len(marker)) = marker}
    IN  IF found = {} THEN 0 ELSE CHOOSE k \in found : \A j \in found : k <= j

\* The first of the lines from..to that trims to marker, 0 if there is none.
markerLine(data, ends, from, to, marker) ==
    LET found == {k \in from..to : TrimSpace(LineOf(data, ends, k)) = marker}
    IN  IF found = {} THEN 0 ELSE CHOOSE k \in found : \A j \in found : k <= j

\* The position after the literal lit found at js[pos..], 0 if it is not there.
expectLit(js, pos, lit) ==
    IF pos > 0 /\ pos + Len(lit) - 1 <= Len(js) /\ SubSeq(js, pos, pos + Len(lit) - 1) = lit
    THEN pos + Len(lit) ELSE 0

\* The number of backslashes immediately before js[i], counted from js[from].
backslashRun(js, from, i) ==
    LET other == {k \in from..(i - 1) : js[k] # 92}
    IN  IF other = {} THEN i - from
        ELSE i - 1 - (CHOOSE k \in other : \A j \in other : k >= j)

\* The closing quote of the string literal whose opening quote is js[pos], 0
\* if there is none.
stringEnd(js, pos) ==
    LET quotes == {i \in (pos + 1)..Len(js) :
                      js[i] = 34 /\ backslashRun(js, pos + 1, i) % 2 = 0}
    IN  IF pos = 0 \/ pos > Len(js) THEN 0
        ELSE IF js[pos] # 34 \/ quotes = {} THEN 0
        ELSE CHOOSE i \in quotes : \A j \in quotes : i <= j

HexValue(c) ==
    IF c \in 48..57 THEN c - 48
    ELSE IF c \in 97..102 THEN c - 87
    ELSE IF c \in 65..70 THEN c - 55
    ELSE 16

\* The UTF-8 encoding of the code point v < 65536; a surrogate gives U+FFFD.
utf8Encode(v) ==
    IF v < 128 THEN <<v>>
    ELSE IF v < 2048 THEN <<192 + (v \div 64), 128 + (v % 64)>>
    ELSE IF v \in 55296..57343 THEN ReplacementChar
    ELSE <<224 + (v \div 4096), 128 + ((v \div 64) % 64), 128 + (v % 64)>>

\* The role of r[i] in the inside r of a string literal: "escape" (the
\* backslash that opens an escape), "escaped" (what follows it), "literal",
\* or "bad".
jsonRoleAt(r, i) ==
    LET opens(q)  == q >= 1 /\ r[q] = 92 /\ backslashRun(r, 1, q) % 2 = 0
        next      == IF i < Len(r) THEN r[i + 1] ELSE 0
        hexOk     == i + 5 <= Len(r) /\ \A k \in 2..5 : HexValue(r[i + k]) < 16
    IN  IF opens(i - 1) THEN "escaped"
        ELSE IF \E q \in (i - 5)..(i - 2) : opens(q) /\ r[q + 1] = 117 THEN "escaped"
        ELSE IF opens(i)
             THEN IF next \in {34, 92, 47, 98, 102, 110, 114, 116} THEN "escape"
                  ELSE IF next = 117 /\ hexOk THEN "escape"
                  ELSE "bad"
        ELSE IF r[i] < 32 THEN "bad"
        ELSE "literal"

\* The bytes that r[i] decodes to.
jsonUnescapeAt(r, i) ==
    LET role == jsonRoleAt(r, i)
        c    == r[i + 1]
    IN  IF role = "escaped" \/ role = "bad" THEN <<>>
        ELSE IF role = "literal"
             THEN IF utf8Inside(r, i) THEN <<r[i]>>
                  ELSE IF utf8Width(r, i) = 0 THEN ReplacementChar
                  ELSE <<r[i]>>
        ELSE IF c = 98 THEN <<8>>
        ELSE IF c = 102 THEN <<12>>
        ELSE IF c = 110 THEN <<10>>
        ELSE IF c = 114 THEN <<13>>
        ELSE IF c = 116 THEN <<9>>
        ELSE IF c = 117
             THEN utf8Encode(HexValue(r[i + 2]) * 4096 + HexValue(r[i + 3]) * 256
                               + HexValue(r[i + 4]) * 16 + HexValue(r[i + 5]))
        ELSE <<c>>

\* The string that the inside r of a string literal stands for.
jsonUnquote(r) ==
    IF \E i \in 1..Len(r) : jsonRoleAt(r, i) = "bad"
    THEN [ok |-> FALSE, data |-> <<>>]
    ELSE [ok |-> TRUE,
          data |-> ConcatAll([i \in 1..Len(r) |-> jsonUnescapeAt(r, i)], 1, Len(r))]

\* The integer literal at js[pos..]: end is the position after it, 0 if there
\* is none or it does not fit 31 bits.
RECURSIVE DigitsValue(_, _, _)
DigitsValue(js, lo, hi) ==
    IF lo > hi THEN 0 ELSE DigitsValue(js, lo, hi - 1) * 10 + (js[hi] - 48)

jsonInt(js, pos) ==
    LET neg    == pos > 0 /\ pos <= Len(js) /\ js[pos] = 45
        first  == IF neg THEN pos + 1 ELSE pos
        stops  == {i \in first..Len(js) : js[i] \notin 48..57}
        last   == IF stops = {} THEN Len(js)
                  ELSE (CHOOSE i \in stops : \A j \in stops : i <= j) - 1
        digits == last - first + 1
        tooBig == digits > 10
                    \/ (digits = 10 /\ (DigitsValue(js, first, last - 1) > 214748364
                                        \/ (DigitsValue(js, first, last - 1) = 214748364
                                            /\ js[last] > 55)))
    IN  IF pos = 0 \/ digits < 1 THEN [end |-> 0, value |-> 0]
        ELSE IF (digits > 1 /\ js[first] = 48) \/ tooBig THEN [end |-> 0, value |-> 0]
        ELSE IF last < Len(js) /\ js[last + 1] \in {46, 69, 101}
             THEN [end |-> 0, value |-> 0]
        ELSE [end |-> last + 1,
              value |-> IF neg THEN -DigitsValue(js, first, last)
                        ELSE DigitsValue(js, first, last)]

\* json.Unmarshal(js, &header), for a header object laid out as json.Marshal
\* lays it out, white space allowed after it.
UnmarshalHeader(js) ==
    LET bad == [ok |-> FALSE]
        \* {"originalFilename": and the other member names, in the order of the struct
        n1 == <<123, 34, 111, 114, 105, 103, 105, 110, 97, 108, 70, 105, 108, 101,
                110, 97, 109, 101, 34, 58>>
        n2 == <<44, 34, 116, 105, 109, 101, 115, 116, 97, 109, 112, 34, 58>>
        n3 == <<44, 34, 105, 110, 100, 101, 120, 34, 58>>
        n4 == <<44, 34, 116, 111, 116, 97, 108, 34, 58>>
        n5 == <<44, 34, 116, 104, 114, 101, 115, 104, 111, 108, 100, 34, 58>>
        n6 == <<44, 34, 107, 101, 121, 70, 114, 97, 103, 109, 101, 110, 116, 34, 58>>
    IN  With(expectLit(js, 1, n1), LAMBDA p1 :
        With(stringEnd(js, p1), LAMBDA e1 :
        IF p1 = 0 \/ e1 = 0 THEN bad ELSE
        With(jsonUnquote(SubSeq(js, p1 + 1, e1 - 1)), LAMBDA name :
        IF ~name.ok THEN bad ELSE
        With(jsonInt(js, expectLit(js, e1 + 1, n2)), LAMBDA ts :
        With(jsonInt(js, expectLit(js, ts.end, n3)), LAMBDA ix :
        With(jsonInt(js, expectLit(js, ix.end, n4)), LAMBDA tot :
        With(jsonInt(js, expectLit(js, tot.end, n5)), LAMBDA thr :
        With(expectLit(js, thr.end, n6), LAMBDA p6 :
        IF p6 = 0 THEN bad ELSE
        With(expectLit(js, p6, <<110, 117, 108, 108>>), LAMBDA pn :
        With(stringEnd(js, p6), LAMBDA e6 :
        With(IF pn # 0 THEN [ok |-> TRUE, data |-> <<>>]
             ELSE IF e6 = 0 THEN [ok |-> FALSE, data |-> <<>>]
             ELSE With(jsonUnquote(SubSeq(js, p6 + 1, e6 - 1)), LAMBDA raw :
                       IF ~raw.ok THEN [ok |-> FALSE, data |-> <<>>]
                       ELSE b64Decode(raw.data)), LAMBDA key :
        IF ~key.ok THEN bad ELSE
        With(expectLit(js, IF pn # 0 THEN pn ELSE e6 + 1, <<125>>), LAMBDA p7 :
        IF p7 = 0 THEN bad
        ELSE IF TrimSpace(SubSeq(js, p7, Len(js))) # <<>> THEN bad
        ELSE [ok |-> TRUE,
              header |-> [OriginalFilename |-> name.data, Timestamp |-> ts.value,
                          Index |-> ix.value, Total |-> tot.value,
                          Threshold |-> thr.value, KeyFragment |-> key.data]]))))))))))))

\* The header a failed parse leaves.
NoHeader ==
    [OriginalFilename |-> <<>>, Timestamp |-> 0, Index |-> 0, Total |-> 0,
     Threshold |-> 0, KeyFragment |-> <<>>]

\* The number of lines NewReader reads while it looks for the header marker.
MaxHeaderScanLines == 50

\* format.NewReader on a stream that holds data.  Body is what the returned
\* reader still yields.
NewReader(data) ==
    LET fail(msg) == [err |-> msg, header |-> NoHeader, body |-> <<>>]
    IN  With(LineEnds(data), LAMBDA ends :
        With(markerLine(data, ends, 1,
                        IF Len(ends) < MaxHeaderScanLines THEN Len(ends)
                        ELSE MaxHeaderScanLines,
                        HeaderMarker), LAMBDA hl :
        IF hl = 0
        THEN IF Len(ends) < MaxHeaderScanLines
             THEN fail("failed to read stream while looking for header")
             ELSE fail("invalid format: could not find header marker")
        ELSE With(markerLine(data, ends, hl + 1, Len(ends), BodyMarker), LAMBDA bl :
        IF bl = 0 THEN fail("failed to read stream while reading header json")
        ELSE With(UnmarshalHeader(SubSeq(data, ends[hl] + 1, ends[bl - 1])), LAMBDA h :
        IF ~h.ok THEN fail("failed to parse header json")
        ELSE IF Validate(h.header) # "" THEN fail("header validation failed")
        ELSE [err |-> "", header |-> h.header,
              body |-> SubSeq(data, ends[bl] + 1, Len(data))]))))

(***************************************************************************)
(* Specification SpecContainer: a header and a body are written, framed or *)
(* headerless, and the bytes written are parsed.                           *)
(***************************************************************************)
\* "a.t"; a quote, a newline and a backslash; "<" and U+00E9; the body
\* marker; "a" and a byte that is no UTF-8; the empty name; U+FFFD.
Filenames ==
    {<<97, 46, 116>>, <<34, 10, 92>>, <<60, 195, 169>>, BodyMarker, <<97, 255>>, <<>>,
     ReplacementChar}

\* Timestamp and key fragment of a header.
HeaderVariants ==
    {<<1700000000, <<1, 2, 3>>>>, <<-1, <<255, 1>>>>, <<0, <<0>>>>, <<7, <<>>>>}

Headers ==
    {[OriginalFilename |-> f, Timestamp |-> v[1], Index |-> i, Total |-> MaxParts,
      Threshold |-> t, KeyFragment |-> v[2]] :
        f \in Filenames, v \in HeaderVariants, i \in 0..(MaxParts + 1),
        t \in 1..(MaxParts + 1)}

BaseHeader ==
    [OriginalFilename |-> <<97, 46, 116>>, Timestamp |-> 1700000000, Index |-> 1,
     Total |-> 2, Threshold |-> 2, KeyFragment |-> <<1, 2, 3>>]

\* A body that is itself a framed horcrux.
FramedBody == WriteFramed(BaseHeader, <<1, 2>>).out

\* A body laid out like a framed horcrux but for an "x" after the header marker.
AlmostFramedBody ==
    HeaderMarker \o <<120, 10>> \o MarshalHeader(BaseHeader) \o <<10>>
        \o BodyMarker \o <<10, 1, 2>>

Bodies ==
    {<<>>, <<10>>, <<0, 255, 10, 13>>, BodyMarker \o <<10, 1>>,
     HeaderMarker \o <<10>>, FramedBody, AlmostFramedBody}

ContainerInit ==
    /\ container \in {[phase |-> "start", header |-> h, body |-> b, headerless |-> FALSE,
                       write |-> [err |-> "", out |-> <<>>],
                       read |-> [err |-> "", header |-> NoHeader, body |-> <<>>]] :
                         h \in Headers, b \in Bodies}
    /\ shamir = Idle /\ secrecy = Idle /\ rs = Idle /\ pipe = Idle /\ cmd = Idle
    /\ stego = Idle /\ keybuf = Idle

DoWrite ==
    /\ container.phase = "start"
    /\ \E headerless \in BOOLEAN :
       \E r \in {WriterWrite(container.header, container.body, headerless)} :
         container' = [container EXCEPT
                          !.phase = IF r.err = "" THEN "written" ELSE "rejected",
                          !.headerless = headerless, !.write = r]
    /\ UNCHANGED <<shamir, secrecy, rs, pipe, cmd, stego, keybuf>>

DoRead ==
    /\ container.phase = "written"
    /\ container' = [container EXCEPT !.phase = "read",
                                      !.read = NewReader(container.write.out)]
    /\ UNCHANGED <<shamir, secrecy, rs, pipe, cmd, stego, keybuf>>

ContainerNext == DoWrite \/ DoRead

SpecContainer == ContainerInit /\ [][ContainerNext]_vars

\* Whether some newline-terminated line of data trims to marker.
HasMarkerLine(data, marker) ==
    \E lo \in 1..Len(data), hi \in 1..Len(data) :
        /\ lo <= hi /\ data[hi] = 10
        /\ lo = 1 \/ data[lo - 1] = 10
        /\ \A k \in lo..(hi - 1) : data[k] # 10
        /\ TrimSpace(SubSeq(data, lo, hi)) = marker

\* C8: NewReader on the bytes Write(h, b, headerless = false) produced
\* succeeds and returns a header equal to h and a body equal to b, for
\* every header that passes Validate and every body.
C8_ContainerRoundTrip ==
    (container.phase = "read" /\ ~container.headerless) =>
        /\ container.read.err = ""
        /\ container.read.header = container.header
        /\ container.read.body = container.body

\* A header that passes Validate, with the file name "a" and the byte 255,
\* comes back from NewReader with U+FFFD in place of the byte.
C8_Witness ==
    /\ container.phase = "read" /\ ~container.headerless
    /\ Validate(container.header) = ""
    /\ container.header.OriginalFilename = <<97, 255>>
    /\ container.read.err = ""
    /\ container.read.header.OriginalFilename = <<97>> \o ReplacementChar
    /\ container.read.body = container.body

\* The round trip of C8 for the headers whose file name is well-formed UTF-8.
C8_RoundTripOfUtf8Names ==
    (/\ container.phase = "read" /\ ~container.headerless
     /\ \A i \in 1..Len(container.header.OriginalFilename) :
           utf8Width(container.header.OriginalFilename, i) > 0
              \/ utf8Inside(container.header.OriginalFilename, i))
      => /\ container.read.err = ""
         /\ container.read.header = container.header
         /\ container.read.body = container.body

\* C9: Write with headerless = true returns no error and writes exactly the
\* content, whatever the header.
C9_HeaderlessWritesContentOnly ==
    /\ container.phase = "rejected" => ~container.headerless
    /\ (container.phase \in {"written", "read"} /\ container.headerless) =>
          (container.write.err = "" /\ container.write.out = container.body)

C9_Witness ==
    /\ container.phase = "written" /\ container.headerless
    /\ Validate(container.header) # ""
    /\ container.body = <<0, 255, 10, 13>>
    /\ container.write.out = <<0, 255, 10, 13>>

\* C10 as stated: NewReader returns an error on every headerless output.
C10_RejectsEveryHeaderless ==
    (container.phase = "read" /\ container.headerless) => container.read.err # ""

\* C10: NewReader returns an error on every headerless output none of whose
\* lines is the header marker.
C10_RejectsHeaderlessWithoutMarker ==
    (/\ container.phase = "read" /\ container.headerless
     /\ ~HasMarkerLine(container.body, HeaderMarker))
      => container.read.err # ""

C10_Witness ==
    /\ container.phase = "read" /\ container.headerless
    /\ container.body = AlmostFramedBody
    /\ container.read.err = "failed to read stream while looking for header"

(***************************************************************************)
(* cmd: split writes the horcrux files of an input file into a directory,  *)
(* bind and the interactive bind rebuild the file from the horcrux files   *)
(* they find there.  A horcrux file is known by the number in its name,    *)
(* which is the Index of its header; the directory lists them in           *)
(* increasing order.  Carrier images are left out.                         *)
(***************************************************************************)
\* secrets.NewSecret(32)
KeySize == 32

\* time.Now().Unix() at the split.
SplitTime == 1700000000

\* filepath.Base(filePath): "a.t"
OriginalName == <<97, 46, 116>>

\* splitCmd.RunE: the error returned and the files written, by index.
RunSplit(input, totalParts, threshold, isHeaderless, seed) ==
    LET fail(err) == [err |-> err, files |-> <<>>]
    IN  IF totalParts < 2 THEN fail("number of parts (-n) must be at least 2")
        ELSE IF threshold < 2 THEN fail("threshold (-t) must be at least 2")
        ELSE IF threshold > totalParts
        THEN fail("threshold cannot be greater than total parts")
        ELSE With(KeyOf(seed, KeySize), LAMBDA keySecret :
        With(ShamirSplit(keySecret, totalParts, threshold, seed), LAMBDA keyFragments :
        IF keyFragments.err # "" THEN fail("failed to split key")
        ELSE With(SplitPipeline(input, keySecret, totalParts, threshold, seed),
                  LAMBDA fileShards :
        IF fileShards.err # "" THEN fail("pipeline failed")
        ELSE IF Len(fileShards.shards) # Len(keyFragments.out)
        THEN fail("mismatch between data shards and key fragments")
        ELSE With([i \in 1..totalParts |->
                      WriterWrite([OriginalFilename |-> OriginalName,
                                   Timestamp        |-> SplitTime,
                                   Index            |-> i,
                                   Total            |-> totalParts,
                                   Threshold        |-> threshold,
                                   KeyFragment      |-> keyFragments.out[i]],
                                  fileShards.shards[i].Data, isHeaderless)],
                  LAMBDA contentBytes :
        With({i \in 1..totalParts : contentBytes[i].err # ""}, LAMBDA failed :
        With(IF failed = {} THEN totalParts
             ELSE (CHOOSE i \in failed : \A j \in failed : i <= j) - 1, LAMBDA written :
        [err   |-> IF failed = {} THEN "" ELSE "failed to serialize horcrux",
         files |-> [i \in 1..written |-> contentBytes[i].out]]))))))

\* The horcruxes that bind loads from the files paths[k], paths[k+1], ... in
\* turn; a file that NewReader rejects is skipped.
RECURSIVE loadHorcruxes(_, _, _)
loadHorcruxes(disk, paths, k) ==
    IF k > Len(paths) THEN <<>>
    ELSE With(NewReader(disk[paths[k]]), LAMBDA reader :
             (IF reader.err # "" THEN <<>>
              ELSE <<[Path |-> paths[k], Header |-> reader.header, Body |-> reader.body]>>)
             \o loadHorcruxes(disk, paths, k + 1))

\* fmt.Sprintf("%s|%d", OriginalFilename, Timestamp)
groupID(header) == header.OriginalFilename \o <<124>> \o Decimal(header.Timestamp)

\* The shard index under which bind files the body of a horcrux, taken to
\* be the Index of the header.
shardIndexOneBased(header) == header.Index

\* The shard index under which bind files the body of a horcrux.
shardIndex(header) == header.Index - 1

\* The shard map that files the body of the k-th horcrux of group under k-1.
shardMapByPosition(group) == [i \in 0..(Len(group) - 1) |-> group[i + 1].Body]

\* shardMap[h.Header.Index-1] = data, for the horcruxes of group in turn.
shardMapOf(group) ==
    [i \in {shardIndex(group[k].Header) : k \in 1..Len(group)} |->
        LET last == CHOOSE k \in 1..Len(group) :
                       /\ shardIndex(group[k].Header) = i
                       /\ \A j \in 1..Len(group) :
                             shardIndex(group[j].Header) = i => j <= k
        IN  group[last].Body]

keyFragmentsOf(group) == [k \in 1..Len(group) |-> group[k].Header.KeyFragment]

\* What became of a group that bind gave up before it joined the shards.
GaveUp(id, refHeader, size, step) ==
    [id |-> id, name |-> refHeader.OriginalFilename, total |-> refHeader.Total,
     threshold |-> refHeader.Threshold, size |-> size, step |-> step,
     key |-> <<>>, shardMap |-> <<>>,
     join |-> [err |-> "", data |-> <<>>, stage |-> "none"], wrote |-> FALSE]

\* bindCmd.RunE, steps 4 to 6, for the group id: the key is rebuilt and the
\* shards are joined.
reconstructGroup(id, group) ==
    With(group[1].Header, LAMBDA refHeader :
    IF Len(group) < refHeader.Threshold
    THEN GaveUp(id, refHeader, Len(group), "not enough horcruxes")
    ELSE With(ShamirCombine(keyFragmentsOf(group)), LAMBDA key :
    IF key.outcome = "panic" THEN GaveUp(id, refHeader, Len(group), "panic")
    ELSE IF key.outcome = "error"
    THEN GaveUp(id, refHeader, Len(group), "failed to reconstruct key")
    ELSE With(shardMapOf(group), LAMBDA shardMap :
         [id |-> id, name |-> refHeader.OriginalFilename, total |-> refHeader.Total,
          threshold |-> refHeader.Threshold, size |-> Len(group), step |-> "joined",
          key |-> key.secret, shardMap |-> shardMap,
          join |-> JoinPipeline(shardMap, key.secret, refHeader.Total,
                                refHeader.Threshold),
          wrote |-> FALSE])))

\* bind that goes on to the output whatever JoinPipeline returned.
skipsOutputIfPresent(joinErr, exists, overwrite) == exists /\ ~overwrite

\* bind that writes the output of a group whatever the output directory
\* holds.
skipsOutputOnlyIfFailed(joinErr, exists, overwrite) == joinErr # ""

\* Whether bindCmd.RunE leaves a group without writing its output.
skipsOutput(joinErr, exists, overwrite) == joinErr # "" \/ (exists /\ ~overwrite)

\* bindCmd.RunE, step 7, for a group that got as far as JoinPipeline; taken
\* is the set of names the output directory holds.
writeOutput(g, taken, overwrite) ==
    IF g.step # "joined" THEN g
    ELSE IF skipsOutput(g.join.err, g.name \in taken, overwrite)
    THEN [g EXCEPT !.step = IF g.join.err # "" THEN "reconstruction pipeline failed"
                            ELSE "file already exists"]
    ELSE [g EXCEPT !.step = "resurrected", !.wrote = TRUE]

\* bindCmd.RunE, steps 2 to 6, over the files at paths: every group with
\* its key rebuilt and its shards joined.
bindGroups(disk, paths) ==
    With(loadHorcruxes(disk, paths, 1), LAMBDA loaded :
    LET group(id) == With(SortedSeq({k \in 1..Len(loaded) :
                                        groupID(loaded[k].Header) = id}), LAMBDA ks :
                          [j \in 1..Len(ks) |-> loaded[ks[j]]])
    IN  {reconstructGroup(id, group(id)) :
            id \in {groupID(loaded[k].Header) : k \in 1..Len(loaded)}})

\* bindCmd.RunE once the groups are joined: the error returned and what
\* became of every group.
finishBind(groups, taken, overwrite) ==
    [err    |-> IF groups = {} THEN "no valid horcruxes found"
                ELSE IF \E g \in groups : g.step = "panic" THEN "panic"
                ELSE "",
     groups |-> {writeOutput(g, taken, overwrite) : g \in groups}]

\* bindCmd.RunE
RunBind(disk, paths, taken, overwrite) ==
    finishBind(bindGroups(disk, paths), taken, overwrite)

\* The horcruxes runInteractiveBind loads from paths[k], paths[k+1], ...; the
\* first file that NewReader rejects ends the bind.
RECURSIVE loadSelected(_, _, _)
loadSelected(disk, paths, k) ==
    IF k > Len(paths) THEN [err |-> "", horcruxes |-> <<>>]
    ELSE With(NewReader(disk[paths[k]]), LAMBDA hReader :
         IF hReader.err # "" THEN [err |-> "invalid header", horcruxes |-> <<>>]
         ELSE With(loadSelected(disk, paths, k + 1), LAMBDA rest :
         IF rest.err # "" THEN rest
         ELSE [err |-> "",
               horcruxes |-> <<[Path |-> paths[k], Header |-> hReader.header,
                                Body |-> hReader.body]>> \o rest.horcruxes]))

\* runInteractiveBind(paths), paths not empty.
RunInteractiveBind(disk, paths) ==
    With(loadSelected(disk, paths, 1), LAMBDA loaded :
    IF loaded.err # "" THEN [err |-> loaded.err, groups |-> {}]
    ELSE With(loaded.horcruxes, LAMBDA horcruxes :
    IF \E k \in 1..Len(horcruxes) :
          horcruxes[k].Header.OriginalFilename # horcruxes[1].Header.OriginalFilename
    THEN [err |-> "selection contains mixed files", groups |-> {}]
    ELSE With(reconstructGroup(groupID(horcruxes[1].Header), horcruxes), LAMBDA g :
    IF g.step = "not enough horcruxes"
    THEN [err |-> "not enough shards", groups |-> {g}]
    ELSE IF g.step = "panic" THEN [err |-> "panic", groups |-> {g}]
    ELSE IF g.step # "joined"
    THEN [err |-> "key reconstruction failed", groups |-> {g}]
    ELSE IF g.join.err # ""
    THEN [err |-> "decryption pipeline failed",
          groups |-> {[g EXCEPT !.step = "reconstruction pipeline failed"]}]
    ELSE [err |-> "", groups |-> {[g EXCEPT !.step = "resurrected", !.wrote = TRUE]}])))

\* The files a bind wrote: os.WriteFile(finalPath, plainText, 0644).
filesWritten(result) ==
    {[name |-> g.name, data |-> g.join.data] : g \in {h \in result.groups : h.wrote}}

(***************************************************************************)
(* Specification SpecCmd: an input file is split; the original and some    *)
(* horcrux files may be removed and one horcrux file may be damaged; then  *)
(* the directory is bound, or the horcrux files selected in the file       *)
(* browser are.                                                            *)
(***************************************************************************)
\* One input of every length 0..MaxInputLen.
CmdInputs == {[i \in 1..k |-> RandByte(1, 300 + i)] : k \in 0..MaxInputLen}

\* What gets appended to a horcrux file.
ExtraBytes == {<<0>>, <<77, 10>>}

NoResult == [err |-> "", groups |-> {}]

CmdInit ==
    /\ cmd \in {[phase |-> "start", input |-> p, totalParts |-> n, threshold |-> t,
                 isHeaderless |-> FALSE, seed |-> 0, original |-> TRUE, disk |-> <<>>,
                 shardLen |-> 0, damage |-> [kind |-> "none", file |-> 0],
                 mode |-> "none", paths |-> <<>>, overwrite |-> FALSE, err |-> "",
                 result |-> NoResult, out |-> {}] :
                   p \in CmdInputs, n \in 1..MaxParts, t \in 1..MaxParts}
    /\ shamir = Idle /\ secrecy = Idle /\ rs = Idle /\ pipe = Idle /\ container = Idle
    /\ stego = Idle /\ keybuf = Idle

DoSplit ==
    /\ cmd.phase = "start"
    /\ \E seed \in 1..MaxSeed, isHeaderless \in BOOLEAN :
       \E r \in {RunSplit(cmd.input, cmd.totalParts, cmd.threshold, isHeaderless, seed)} :
         cmd' = [cmd EXCEPT !.phase = IF r.err = "" THEN "split" ELSE "rejected",
                            !.isHeaderless = isHeaderless, !.seed = seed,
                            !.disk = r.files, !.err = r.err,
                            !.shardLen =
                                IF r.err # "" THEN 0
                                ELSE IF isHeaderless THEN Len(r.files[1])
                                ELSE Len(NewReader(r.files[1]).body)]
    /\ UNCHANGED <<shamir, secrecy, rs, pipe, container, stego, keybuf>>

\* os.Remove(originalFile)
RemoveOriginal ==
    /\ cmd.phase = "split" /\ cmd.original
    /\ cmd' = [cmd EXCEPT !.original = FALSE]
    /\ UNCHANGED <<shamir, secrecy, rs, pipe, container, stego, keybuf>>

\* A horcrux file is deleted, the original gone before it.
DeleteFile ==
    /\ cmd.phase = "split" /\ ~cmd.original
    /\ \E i \in DOMAIN cmd.disk :
         cmd' = [cmd EXCEPT !.disk = [j \in (DOMAIN cmd.disk) \ {i} |-> cmd.disk[j]]]
    /\ UNCHANGED <<shamir, secrecy, rs, pipe, container, stego, keybuf>>

\* Bytes are appended to a horcrux file, the original gone before it.
AppendToFile ==
    /\ cmd.phase = "split" /\ ~cmd.original /\ cmd.damage.kind = "none"
    /\ \E i \in DOMAIN cmd.disk, extra \in ExtraBytes :
         cmd' = [cmd EXCEPT !.disk[i] = @ \o extra,
                            !.damage = [kind |-> "append", file |-> i]]
    /\ UNCHANGED <<shamir, secrecy, rs, pipe, container, stego, keybuf>>

\* A bit of the first or of the last byte of the shard in a horcrux file is
\* flipped, the original gone before it.
TamperWithFile ==
    /\ cmd.phase = "split" /\ ~cmd.original /\ cmd.damage.kind = "none"
    /\ \E i \in DOMAIN cmd.disk, pos \in {1, cmd.shardLen} :
         LET at == Len(cmd.disk[i]) - cmd.shardLen + pos
         IN  cmd' = [cmd EXCEPT !.disk[i][at] = add(@, 1),
                                !.damage = [kind |-> "tamper", file |-> i]]
    /\ UNCHANGED <<shamir, secrecy, rs, pipe, container, stego, keybuf>>

\* The names the directory holds for bind's output.
Taken == IF cmd.original THEN {OriginalName} ELSE {}

\* horcrux bind: the directory holds the .horcrux files of a split that was
\* not headerless.
DoBind ==
    /\ cmd.phase = "split"
    /\ \E paths \in {IF cmd.isHeaderless THEN <<>> ELSE SortedSeq(DOMAIN cmd.disk)} :
       \E groups \in {bindGroups(cmd.disk, paths)} :
       \E overwrite \in BOOLEAN :
       \E r \in {finishBind(groups, Taken, overwrite)} :
         cmd' = [cmd EXCEPT !.phase = "bound", !.mode = "directory", !.paths = paths,
                            !.overwrite = overwrite,
                            !.result = r, !.err = r.err, !.out = filesWritten(r)]
    /\ UNCHANGED <<shamir, secrecy, rs, pipe, container, stego, keybuf>>

\* 'b' in the file browser with some of the .horcrux files it lists selected.
DoInteractiveBind ==
    /\ cmd.phase = "split" /\ ~cmd.isHeaderless
    /\ \E selected \in (SUBSET DOMAIN cmd.disk) \ {{}} :
       \E paths \in {SortedSeq(selected)} :
       \E r \in {RunInteractiveBind(cmd.disk, paths)} :
         cmd' = [cmd EXCEPT !.phase = "bound", !.mode = "interactive", !.paths = paths,
                            !.result = r, !.err = r.err, !.out = filesWritten(r)]
    /\ UNCHANGED <<shamir, secrecy, rs, pipe, container, stego, keybuf>>

CmdNext ==
    \/ DoSplit
    \/ RemoveOriginal
    \/ DeleteFile
    \/ AppendToFile
    \/ TamperWithFile
    \/ DoBind
    \/ DoInteractiveBind

SpecCmd == CmdInit /\ [][CmdNext]_vars

\* The horcrux files of the split that a bind was given.
BoundOver == {cmd.paths[k] : k \in 1..Len(cmd.paths)}

\* C3: after a split with 2 <= t <= n that is not headerless, with the
\* original removed and no horcrux file damaged, a bind over what is left
\* of the horcrux files, t of them or more, returns no error and writes one
\* file, under the original name, that holds the input bytes.
C3_EndToEndRecovery ==
    (/\ cmd.phase = "bound"
     /\ ~cmd.isHeaderless /\ ~cmd.original /\ cmd.damage.kind = "none"
     /\ Cardinality(BoundOver) >= cmd.threshold)
      => /\ cmd.err = ""
         /\ cmd.out = {[name |-> OriginalName, data |-> cmd.input]}

\* A directory bind after the horcrux files 1 of 3 was deleted, t = 2.
C3_Witness ==
    /\ cmd.phase = "bound" /\ cmd.mode = "directory"
    /\ cmd.totalParts = 3 /\ cmd.threshold = 2
    /\ ~cmd.original /\ cmd.damage.kind = "none"
    /\ BoundOver = {2, 3}
    /\ Len(cmd.input) = MaxInputLen
    /\ cmd.out = {[name |-> OriginalName, data |-> cmd.input]}

\* Whether gcm.Open accepts, under key, the ciphertext that the shards of
\* shardMap reconstruct.
OpensUnder(shardMap, key, total, threshold) ==
    LET joined == SplitterJoin(shardMap, 0, total, threshold)
        ct     == cipherTextOf(joined.data)
    IN  /\ NewSplitter(total, threshold) = ""
        /\ joined.err = "" /\ Len(joined.data) >= 8 /\ ct.err = ""
        /\ aesNewCipher(key) = ""
        /\ Len(ct.data) >= NonceSize
        /\ gcmOpen(key, SubSeq(ct.data, 1, NonceSize),
                   SubSeq(ct.data, NonceSize + 1, Len(ct.data))).err = ""

\* C4: whenever a bind, of the directory or interactive, wrote the output of
\* a group, JoinPipeline had returned no error for the group and gcm.Open
\* had accepted the reconstructed ciphertext under the reconstructed key;
\* and a bind writes no file but the plaintext of such a group.
C4_AuthenticatedOutputOnly ==
    cmd.phase = "bound" =>
        /\ \A g \in cmd.result.groups :
              g.wrote => /\ g.join.err = "" /\ g.join.stage = "done"
                         /\ OpensUnder(g.shardMap, g.key, g.total, g.threshold)
        /\ \A f \in cmd.out :
              \E g \in cmd.result.groups :
                  g.wrote /\ f = [name |-> g.name, data |-> g.join.data]

\* An interactive bind of all three horcrux files, a parity shard tampered
\* with, that wrote the output.
C4_Witness ==
    /\ cmd.phase = "bound" /\ cmd.mode = "interactive"
    /\ cmd.totalParts = 3 /\ cmd.threshold = 2
    /\ cmd.damage = [kind |-> "tamper", file |-> 3]
    /\ BoundOver = {1, 2, 3}
    /\ cmd.out # {}

\* C5: after bytes were appended to one horcrux file of a split, a bind over
\* all n horcrux files writes the input bytes under the original name or
\* writes nothing.
C5_CorruptShardSafety ==
    (/\ cmd.phase = "bound" /\ cmd.mode = "directory"
     /\ cmd.damage.kind = "append"
     /\ BoundOver = 1..cmd.totalParts)
      => \/ cmd.out = {}
         \/ cmd.out = {[name |-> OriginalName, data |-> cmd.input]}

\* A bind of three horcrux files, bytes appended to the first, that found no
\* reconstruction and wrote nothing.
C5_Witness ==
    /\ cmd.phase = "bound" /\ cmd.mode = "directory"
    /\ cmd.totalParts = 3 /\ cmd.threshold = 2
    /\ ~cmd.original
    /\ cmd.damage = [kind |-> "append", file |-> 1]
    /\ BoundOver = {1, 2, 3}
    /\ \E g \in cmd.result.groups :
          g.step = "reconstruction pipeline failed" /\ g.join.stage = "join"
    /\ cmd.out = {}

(***************************************************************************)
(* pkg/stego: LSB steganography.  An image is its width, its height, the   *)
(* R, G and B values of its pixels in row-major order, three to a pixel,   *)
(* and the alpha values of its pixels.  The carrier is an *image.NRGBA,    *)
(* which draw.Draw copies unchanged.                                       *)
(***************************************************************************)
MaxWidth == 4
MaxHeight == 4
MaxStegoLen == 3

\* Byte values the payloads are drawn from.
StegoBytes == {0, 165, 255}

\* Channel values the carriers start from.
CarrierFills == {100, 255}

NoImage == [width |-> 0, height |-> 0, pix |-> <<>>, alpha |-> <<>>]

\* binary.BigEndian.PutUint32(lengthBuf, n)
PutUint32(n) == <<(n \div 16777216) % 256, (n \div 65536) % 256, (n \div 256) % 256, n % 256>>

\* The bits of a payload byte taken from the least significant on.
payloadBitLSBFirst(payload, bitIndex) ==
    (payload[(bitIndex \div 8) + 1] \div (2 ^ (bitIndex % 8))) % 2

\* (payload[bitIndex / 8] >> (7 - bitIndex % 8)) & 1
payloadBit(payload, bitIndex) ==
    (payload[(bitIndex \div 8) + 1] \div (2 ^ (7 - (bitIndex % 8)))) % 2

\* *val = (*val & 0xFE) | bit
setLSB(val, bit) == (val - (val % 2)) + bit

\* The bits the carrier is taken to offer, were the alpha channel counted.
totalBitsAvailableWithAlpha(numPixels) == numPixels * 4

\* totalBitsAvailable := numPixels * 3
totalBitsAvailable(numPixels) == numPixels * 3

\* stego.Embed(carrier, data): the error returned, the image returned, and
\* the carrier as the call leaves it.  The image is a new NRGBA that
\* draw.Draw fills from the carrier; the bits are written to it alone.
Embed(carrier, data) ==
    LET numPixels         == carrier.width * carrier.height
        totalBitsRequired == (4 + Len(data)) * 8
        fullPayload       == PutUint32(Len(data)) \o data
        payloadBits       == Len(fullPayload) * 8
    IN  IF totalBitsRequired > totalBitsAvailable(numPixels)
        THEN [err |-> "ErrMessageTooLarge", image |-> NoImage, carrier |-> carrier]
        ELSE [err   |-> "",
              image |-> [width  |-> carrier.width,
                         height |-> carrier.height,
                         pix    |-> [i \in 1..(3 * numPixels) |->
                                        IF i - 1 >= payloadBits THEN carrier.pix[i]
                                        ELSE setLSB(carrier.pix[i],
                                                    payloadBit(fullPayload, i - 1))],
                         alpha  |-> carrier.alpha],
              carrier |-> carrier]

\* The value of the bits pix[from] & 1, ..., pix[from + n - 1] & 1, most
\* significant first.
RECURSIVE lsbValue(_, _, _)
lsbValue(pix, from, n) ==
    IF n = 0 THEN 0
    ELSE 2 * lsbValue(pix, from, n - 1) + (pix[from + n - 1] % 2)

\* stego.Extract(stegoImage): the error returned and the data returned.
\* dataLen is held as its upper and its lower 16 bits.
Extract(stegoImage) ==
    LET total == stegoImage.width * stegoImage.height * 3
        fail  == [err |-> "ErrNoHiddenData", data |-> <<>>]
    IN  IF total < 32 THEN fail
        ELSE With(lsbValue(stegoImage.pix, 1, 16), LAMBDA hi :
             With(lsbValue(stegoImage.pix, 17, 16), LAMBDA lo :
             With((total - 32) \div 8, LAMBDA most :
             IF (hi = 0 /\ lo = 0)
                \/ hi > most \div 65536
                \/ (hi = most \div 65536 /\ lo > most % 65536)
             THEN fail
             ELSE [err  |-> "",
                   data |-> [k \in 1..(hi * 65536 + lo) |->
                                lsbValue(stegoImage.pix, 32 + 8 * (k - 1) + 1, 8)]])))

(***************************************************************************)
(* Specification SpecStego: a payload is embedded in a carrier and the     *)
(* image Embed returned is handed to Extract.                              *)
(***************************************************************************)
Carriers ==
    {[width |-> w, height |-> h, pix |-> [i \in 1..(3 * w * h) |-> (fill + 7 * i) % 256],
      alpha |-> [p \in 1..(w * h) |-> (fill + 100 * p) % 256]] :
        w \in 0..MaxWidth, h \in 0..MaxHeight, fill \in CarrierFills}

StegoInit ==
    /\ \E carrier \in Carriers, data \in SeqsOf(StegoBytes, 0, MaxStegoLen) :
          stego = [phase |-> "start", carrier |-> carrier, original |-> carrier,
                   data |-> data,
                   embedded |-> [err |-> "", image |-> NoImage],
                   extracted |-> [err |-> "", data |-> <<>>]]
    /\ shamir = Idle /\ secrecy = Idle /\ rs = Idle /\ pipe = Idle
    /\ container = Idle /\ cmd = Idle /\ keybuf = Idle

DoEmbed ==
    /\ stego.phase = "start"
    /\ \E r \in {Embed(stego.carrier, stego.data)} :
         stego' = [stego EXCEPT !.phase = "embedded", !.carrier = r.carrier,
                                !.embedded = [err |-> r.err, image |-> r.image]]
    /\ UNCHANGED <<shamir, secrecy, rs, pipe, container, cmd, keybuf>>

DoExtract ==
    /\ stego.phase = "embedded"
    /\ stego.embedded.err = ""
    /\ stego' = [stego EXCEPT !.phase = "extracted",
                              !.extracted = Extract(stego.embedded.image)]
    /\ UNCHANGED <<shamir, secrecy, rs, pipe, container, cmd, keybuf>>

StegoNext == DoEmbed \/ DoExtract

SpecStego == StegoInit /\ [][StegoNext]_vars

\* Whether the payload fits the carrier: (4 + len(d)) * 8 <= 3 * width * height.
Fits(carrier, data) == (4 + Len(data)) * 8 <= 3 * carrier.width * carrier.height

\* C11: whenever Embed succeeded, for a payload of any length from 0 up to
\* the exact capacity of the carrier, Extract of the image Embed returned
\* succeeds and returns the payload.
C11_StegoRoundTrip ==
    stego.phase = "extracted" =>
        /\ stego.extracted.err = ""
        /\ stego.extracted.data = stego.data

\* An empty payload was embedded with success and the image was extracted.
C11_Witness ==
    /\ stego.phase = "extracted"
    /\ stego.data = <<>>
    /\ stego.embedded.err = ""

\* Extract returns the payload whenever the payload is not empty.
StegoRoundTripNonEmpty ==
    (stego.phase = "extracted" /\ stego.data # <<>>) =>
        /\ stego.extracted.err = ""
        /\ stego.extracted.data = stego.data

\* A payload of exactly the capacity of the carrier came back from Extract.
StegoExactCapacity ==
    /\ stego.phase = "extracted"
    /\ (4 + Len(stego.data)) * 8 = 3 * stego.carrier.width * stego.carrier.height
    /\ stego.extracted.data = stego.data

\* C12: Embed returns an error wrapping ErrMessageTooLarge, and no image,
\* exactly when (4 + len(data)) * 8 exceeds 3 * width * height; otherwise it
\* returns no error and an image of the size of the carrier.
C12_StegoCapacity ==
    stego.phase \in {"embedded", "extracted"} =>
        IF Fits(stego.carrier, stego.data)
        THEN /\ stego.embedded.err = ""
             /\ stego.embedded.image.width = stego.carrier.width
             /\ stego.embedded.image.height = stego.carrier.height
             /\ Len(stego.embedded.image.pix) = Len(stego.carrier.pix)
        ELSE /\ stego.embedded.err = "ErrMessageTooLarge"
             /\ stego.embedded.image = NoImage

\* Embed refused a payload one byte longer than the carrier can hold.
C12_Witness ==
    /\ stego.phase = "embedded"
    /\ stego.embedded.err = "ErrMessageTooLarge"
    /\ (4 + Len(stego.data)) * 8 = 3 * stego.carrier.width * stego.carrier.height + 8

\* Embed accepted a payload of exactly the capacity of the carrier.
StegoAcceptsExactCapacity ==
    /\ stego.phase = "embedded"
    /\ stego.embedded.err = ""
    /\ (4 + Len(stego.data)) * 8 = 3 * stego.carrier.width * stego.carrier.height

(***************************************************************************)
(* Specification SpecCombine: shamir.Combine is handed any list of shares, *)
(* of any lengths and with any x-coordinates.                              *)
(***************************************************************************)
MaxShareLen == 2

\* Byte values the shares handed to Combine are drawn from.
ShareBytes == {1, 2}

CombineInit ==
    /\ \E parts \in SeqsOf(SeqsOf(ShareBytes, 0, MaxShareLen), 0, MaxParts) :
          shamir = [phase |-> "given", parts |-> parts,
                    result |-> [outcome |-> "none", secret |-> <<>>]]
    /\ secrecy = Idle /\ rs = Idle /\ pipe = Idle /\ container = Idle /\ cmd = Idle
    /\ stego = Idle /\ keybuf = Idle

DoCombine ==
    /\ shamir.phase = "given"
    /\ shamir' = [shamir EXCEPT !.phase = "combined",
                                !.result = ShamirCombine(shamir.parts)]
    /\ UNCHANGED <<secrecy, rs, pipe, container, cmd, stego, keybuf>>

SpecCombine == CombineInit /\ [][DoCombine]_vars

\* The x-coordinates of the shares, the trailing byte of each share that
\* has one.
XCoordinates(parts) ==
    [i \in {k \in 1..Len(parts) : Len(parts[k]) > 0} |-> parts[i][Len(parts[i])]]

DistinctX(parts) ==
    /\ \A k \in 1..Len(parts) : Len(parts[k]) > 0
    /\ \A i, j \in 1..Len(parts) : i # j => XCoordinates(parts)[i] # XCoordinates(parts)[j]

\* C19: for every list of shares handed to Combine, the x-coordinates are
\* pairwise distinct or Combine returns an error, and Combine never panics
\* in div.
C19_NoDivideByZero ==
    shamir.phase = "combined" =>
        /\ DistinctX(shamir.parts) \/ shamir.result.outcome = "error"
        /\ shamir.result.outcome # "panic"

\* Combine panicked on two shares of equal length, two bytes or more, that
\* have the same x-coordinate.
C19_Witness ==
    /\ shamir.phase = "combined"
    /\ Len(shamir.parts) = 2
    /\ Len(shamir.parts[1]) = 2 /\ Len(shamir.parts[2]) = 2
    /\ shamir.parts[1][2] = shamir.parts[2][2]
    /\ shamir.result.outcome = "panic"

\* Whether the shares are too few, of differing lengths, or too short to hold
\* an x-coordinate and one y byte.
Malformed(parts) ==
    \/ Len(parts) < 2
    \/ \E i, j \in 1..Len(parts) : Len(parts[i]) # Len(parts[j])
    \/ \E i \in 1..Len(parts) : Len(parts[i]) <= 1

\* C20: Combine returns an error, and neither a secret nor a panic, whenever
\* it is given fewer than 2 shares, shares of differing lengths, or shares
\* of length 0 or 1.
C20_CombineRejectsMalformed ==
    (shamir.phase = "combined" /\ Malformed(shamir.parts))
        => shamir.result.outcome = "error"

\* Combine returned no error for two shares of length 1.
C20_Witness ==
    /\ shamir.phase = "combined"
    /\ Len(shamir.parts) = 2
    /\ Len(shamir.parts[1]) = 1 /\ Len(shamir.parts[2]) = 1
    /\ shamir.result.outcome = "ok"

\* Combine returns an error whenever it is given fewer than 2 shares, or
\* shares of differing lengths the first of which is not empty.
CombineRejectsFewOrUneven ==
    (/\ shamir.phase = "combined"
     /\ \/ Len(shamir.parts) < 2
        \/ /\ Len(shamir.parts[1]) > 0
           /\ \E i \in 1..Len(shamir.parts) : Len(shamir.parts[i]) # Len(shamir.parts[1]))
        => shamir.result.outcome = "error"

\* Combine panics in make([]byte, firstLen-1) when the first share is empty.
CombinePanicsOnEmptyFirst ==
    /\ shamir.phase = "combined"
    /\ Len(shamir.parts) >= 2 /\ Len(shamir.parts[1]) = 0
    /\ shamir.result.outcome = "panic"

(***************************************************************************)
(* pkg/crypto/secrets.  A Secret is its field data, a reference: "nil" or  *)
(* "buf", the one byte buffer of the model; the bytes of the buffer are    *)
(* held beside it, so that every holder of the reference sees a write.     *)
(***************************************************************************)
MaxKeyLen == 2
MaxDestroys == 3

\* secrets.NewSecret(size), rand.Read having drawn the stream seed.
NewSecret(size, seed) == [secret |-> [data |-> "buf"], buf |-> KeyOf(seed, size)]

\* secrets.WrapSecret(data)
WrapSecret(data) == [data |-> data]

\* Secret.Bytes()
Bytes(s) == s.data

\* Destroy that drops the reference and leaves the bytes as they are.
DestroyWithoutZeroing(s, buf) == [secret |-> [data |-> "nil"], buf |-> buf]

\* Secret.Destroy(): the Secret and the bytes of the buffer afterwards.
Destroy(s, buf) ==
    IF s.data # "nil"
    THEN [secret |-> [data |-> "nil"], buf |-> [i \in 1..Len(buf) |-> 0]]
    ELSE [secret |-> s, buf |-> buf]

IsZeroed(buf) == \A i \in 1..Len(buf) : buf[i] = 0

(***************************************************************************)
(* Specification SpecSecret: a Secret is made by NewSecret or WrapSecret;  *)
(* its owner calls Bytes and Destroy in any order.                         *)
(***************************************************************************)
SecretInit ==
    /\ \E size \in 0..MaxKeyLen, seed \in 1..MaxSeed,
          made \in {"NewSecret", "WrapSecret", "WrapSecret(nil)"} :
          keybuf = [phase |-> "live",
                    buf |-> IF made = "WrapSecret(nil)" THEN <<>>
                            ELSE NewSecret(size, seed).buf,
                    orig |-> IF made = "WrapSecret(nil)" THEN <<>>
                             ELSE NewSecret(size, seed).buf,
                    secret |-> IF made = "NewSecret" THEN NewSecret(size, seed).secret
                               ELSE IF made = "WrapSecret" THEN WrapSecret("buf")
                               ELSE WrapSecret("nil"),
                    made |-> made,
                    held |-> "none", got |-> "none", destroys |-> 0,
                    before |-> [secret |-> [data |-> "nil"], buf |-> <<>>]]
    /\ shamir = Idle /\ secrecy = Idle /\ rs = Idle /\ pipe = Idle
    /\ container = Idle /\ cmd = Idle /\ stego = Idle

\* b := s.Bytes(); the owner keeps b if it is not nil.
CallBytes ==
    /\ keybuf.phase = "live"
    /\ keybuf' = [keybuf EXCEPT !.got = Bytes(keybuf.secret),
                                !.held = IF Bytes(keybuf.secret) # "nil"
                                         THEN Bytes(keybuf.secret) ELSE @]
    /\ UNCHANGED <<shamir, secrecy, rs, pipe, container, cmd, stego>>

\* s.Destroy()
CallDestroy ==
    /\ keybuf.phase = "live"
    /\ keybuf.destroys < MaxDestroys
    /\ \E r \in {Destroy(keybuf.secret, keybuf.buf)} :
         keybuf' = [keybuf EXCEPT !.secret = r.secret, !.buf = r.buf,
                                  !.destroys = @ + 1,
                                  !.before = [secret |-> keybuf.secret,
                                              buf |-> keybuf.buf]]
    /\ UNCHANGED <<shamir, secrecy, rs, pipe, container, cmd, stego>>

SecretNext == CallBytes \/ CallDestroy

SpecSecret == SecretInit /\ [][SecretNext]_vars

\* C17: once Destroy was called, every byte of a buffer obtained through
\* Bytes() before is zero and Bytes() returns nil; a Destroy that is not
\* the first leaves the Secret and the buffer as they were.
C17_DestroyZeroizesIdempotent ==
    (keybuf.phase = "live" /\ keybuf.destroys >= 1) =>
        /\ keybuf.held = "buf" => (IsZeroed(keybuf.buf) /\ Len(keybuf.buf) = Len(keybuf.orig))
        /\ Bytes(keybuf.secret) = "nil"
        /\ keybuf.destroys >= 2 =>
              keybuf.before = [secret |-> keybuf.secret, buf |-> keybuf.buf]

\* A Secret over a buffer of non-zero bytes, obtained through Bytes(), was
\* destroyed twice, and Bytes() was called again.
C17_Witness ==
    /\ keybuf.phase = "live"
    /\ keybuf.destroys = 2
    /\ keybuf.held = "buf" /\ keybuf.got = "nil"
    /\ Len(keybuf.orig) = MaxKeyLen
    /\ \A i \in 1..Len(keybuf.orig) : keybuf.orig[i] # 0
    /\ IsZeroed(keybuf.buf)

(***************************************************************************)
(* Specification SpecKeyLife: the buffer that holds the AES key, from the  *)
(* point where split has generated the key, or bind has reconstructed it,  *)
(* to the return of the command.  Every step that can return an error may  *)
(* fail; a return runs the deferred calls.                                 *)
(***************************************************************************)
\* One iteration of the loop of split that writes a horcrux.
splitLoopBody(stegoMode) ==
    IF stegoMode THEN <<"writer.Write", "stego.Embed", "os.Create", "png.Encode">>
    ELSE <<"writer.Write", "os.WriteFile">>

RECURSIVE splitLoop(_, _)
splitLoop(totalParts, stegoMode) ==
    IF totalParts = 0 THEN <<>>
    ELSE splitLoopBody(stegoMode) \o splitLoop(totalParts - 1, stegoMode)

\* splitCmd.RunE after `defer keySecret.Destroy()`: the calls, in turn, whose
\* error makes the command return.
splitPath(totalParts, stegoMode) ==
    <<"shamir.Split", "os.Open", "pipeline.SplitPipeline",
      "len(fileShards) != len(keyFragments)">> \o splitLoop(totalParts, stegoMode)

\* bindCmd.RunE after shamir.Combine returned the key of a group: the calls,
\* in turn, whose failure ends the work on the group.
bindPath == <<"io.ReadAll", "pipeline.JoinPipeline", "os.Stat", "os.WriteFile">>

PathOf(k) == IF k.op = "split" THEN splitPath(k.totalParts, k.stegoMode) ELSE bindPath

\* The deferred calls of the command, last deferred first, each a Destroy
\* of one of the Secrets of the command: the Secrets and the key bytes
\* afterwards.
RECURSIVE runDeferred(_, _, _)
runDeferred(secrets, deferred, buf) ==
    IF deferred = <<>> THEN [secrets |-> secrets, buf |-> buf]
    ELSE With(Destroy(secrets[deferred[Len(deferred)]], buf), LAMBDA r :
              runDeferred([secrets EXCEPT ![deferred[Len(deferred)]] = r.secret],
                          SubSeq(deferred, 1, Len(deferred) - 1), r.buf))

KeyLifeInit ==
    /\ \E op \in {"split", "bind"}, seed \in 1..MaxSeed, n \in 2..MaxParts,
          stegoMode \in BOOLEAN :
          keybuf = [phase |-> "running", op |-> op,
                    totalParts |-> IF op = "split" THEN n ELSE 0,
                    stegoMode |-> op = "split" /\ stegoMode,
                    buf |-> NewSecret(KeySize, seed).buf,
                    orig |-> NewSecret(KeySize, seed).buf,
                    \* keySecret, err := secrets.NewSecret(32)
                    \* defer keySecret.Destroy()
                    \* in split; bind holds the key in no Secret and defers
                    \* no Destroy.
                    secrets |-> IF op = "split" THEN <<NewSecret(KeySize, seed).secret>>
                                ELSE <<>>,
                    deferred |-> IF op = "split" THEN <<1>> ELSE <<>>,
                    pc |-> 1, exit |-> ""]
    /\ shamir = Idle /\ secrecy = Idle /\ rs = Idle /\ pipe = Idle
    /\ container = Idle /\ cmd = Idle /\ stego = Idle

\* The command returns: its deferred calls run.
Returned(k, exit) ==
    With(runDeferred(k.secrets, k.deferred, k.buf), LAMBDA r :
         [k EXCEPT !.phase = "returned", !.exit = exit,
                   !.secrets = r.secrets, !.buf = r.buf, !.deferred = <<>>])

\* The call at hand returns no error.
StepSucceeds ==
    /\ keybuf.phase = "running"
    /\ keybuf.pc <= Len(PathOf(keybuf))
    /\ keybuf' = [keybuf EXCEPT !.pc = @ + 1]
    /\ UNCHANGED <<shamir, secrecy, rs, pipe, container, cmd, stego>>

\* The call at hand fails: split returns the error; bind returns the error,
\* or goes on to the end of its loop over the groups and returns nil.
StepFails ==
    /\ keybuf.phase = "running"
    /\ keybuf.pc <= Len(PathOf(keybuf))
    /\ keybuf' = Returned(keybuf, PathOf(keybuf)[keybuf.pc])
    /\ UNCHANGED <<shamir, secrecy, rs, pipe, container, cmd, stego>>

\* return nil
ReturnNil ==
    /\ keybuf.phase = "running"
    /\ keybuf.pc = Len(PathOf(keybuf)) + 1
    /\ keybuf' = Returned(keybuf, "nil")
    /\ UNCHANGED <<shamir, secrecy, rs, pipe, container, cmd, stego>>

KeyLifeNext == StepSucceeds \/ StepFails \/ ReturnNil

SpecKeyLife == KeyLifeInit /\ [][KeyLifeNext]_vars

\* C16: when split returns after the key was generated, or bind returns
\* after shamir.Combine reconstructed the key, with an error or without,
\* every byte of the buffer that held the key is zero.
C16_KeyZeroizedOnEveryExit ==
    keybuf.phase = "returned" =>
        /\ Len(keybuf.buf) = KeySize
        /\ IsZeroed(keybuf.buf)

\* bind wrote the output and returned nil with the key bytes as Combine
\* left them.
C16_Witness ==
    /\ keybuf.phase = "returned" /\ keybuf.op = "bind"
    /\ keybuf.exit = "nil"
    /\ keybuf.buf = keybuf.orig
    /\ ~IsZeroed(keybuf.buf)

\* The key is zeroized on every return of split.
KeyZeroizedAfterSplit ==
    (keybuf.phase = "returned" /\ keybuf.op = "split") =>
        /\ Len(keybuf.buf) = KeySize
        /\ IsZeroed(keybuf.buf)
        /\ ~IsZeroed(keybuf.orig)

\* The key is zeroized on no return of bind.
KeyKeptAfterBind ==
    (keybuf.phase = "returned" /\ keybuf.op = "bind") => keybuf.buf = keybuf.orig

(***************************************************************************)
(* Indices, key fragments and the output of bind in SpecCmd.               *)
(***************************************************************************)
\* The shards SplitPipeline handed to the split, and the key fragments
\* shamir.Split did.
ShardsOfSplit ==
    SplitPipeline(cmd.input, KeyOf(cmd.seed, KeySize), cmd.totalParts, cmd.threshold,
                  cmd.seed).shards

FragmentsOfSplit ==
    ShamirSplit(KeyOf(cmd.seed, KeySize), cmd.totalParts, cmd.threshold, cmd.seed).out

\* The split has returned and its directory is as the split left it.
FreshSplit == cmd.phase = "split" /\ cmd.original /\ cmd.damage.kind = "none"

\* The horcruxes of the group g among the files the bind was given.
Members(g) ==
    With(loadHorcruxes(cmd.disk, cmd.paths, 1), LAMBDA loaded :
         {loaded[k] : k \in {j \in 1..Len(loaded) :
                                cmd.mode = "interactive"
                                \/ groupID(loaded[j].Header) = g.id}})

\* C13: the horcrux that a split wrote with header index i (the i-th file;
\* 1..N) holds the shard of SplitPipeline whose Index is i-1; the shard map
\* a bind hands to JoinPipeline holds the body of every horcrux of the
\* group under its header index minus 1 and nothing else; so the shard map
\* of a bind over undamaged files holds under j the shard with Index j.
C13_IndexConvention ==
    /\ FreshSplit =>
          \A i \in 1..cmd.totalParts :
             /\ ShardsOfSplit[i].Index = i - 1
             /\ IF cmd.isHeaderless THEN cmd.disk[i] = ShardsOfSplit[i].Data
                ELSE With(NewReader(cmd.disk[i]), LAMBDA r :
                          /\ r.err = ""
                          /\ r.header.Index = i
                          /\ r.body = ShardsOfSplit[i].Data)
    /\ cmd.phase = "bound" =>
          \A g \in cmd.result.groups :
             g.join.stage # "none" =>
                /\ DOMAIN g.shardMap = {h.Header.Index - 1 : h \in Members(g)}
                /\ \A h \in Members(g) : g.shardMap[h.Header.Index - 1] = h.Body
                /\ cmd.damage.kind = "none" =>
                      \A j \in DOMAIN g.shardMap :
                         /\ ShardsOfSplit[j + 1].Index = j
                         /\ g.shardMap[j] = ShardsOfSplit[j + 1].Data

\* An interactive bind of the horcruxes 1 and 3 of 3, threshold 2, handed
\* JoinPipeline the shards 0 and 2, which differ, and wrote the output.
C13_Witness ==
    /\ cmd.phase = "bound" /\ cmd.mode = "interactive"
    /\ cmd.totalParts = 3 /\ cmd.threshold = 2 /\ cmd.damage.kind = "none"
    /\ BoundOver = {1, 3}
    /\ \E g \in cmd.result.groups :
          /\ g.wrote
          /\ DOMAIN g.shardMap = {0, 2}
          /\ g.shardMap[0] # g.shardMap[2]

\* C14: the key fragment of every horcrux of a split has KeySize + 1 = 33
\* bytes; its last byte is the header index of the horcrux, lies in 1..N and
\* differs from that of every other horcrux of the split.
C14_HeaderIndexIsShamirX ==
    FreshSplit =>
        /\ Len(FragmentsOfSplit) = cmd.totalParts
        /\ DOMAIN cmd.disk = 1..cmd.totalParts
        /\ \A i \in 1..cmd.totalParts :
              /\ Len(FragmentsOfSplit[i]) = 33
              /\ FragmentsOfSplit[i][33] = i
              /\ ~cmd.isHeaderless =>
                    With(NewReader(cmd.disk[i]).header, LAMBDA h :
                         /\ h.Index = i
                         /\ h.KeyFragment = FragmentsOfSplit[i]
                         /\ Len(h.KeyFragment) = KeySize + 1
                         /\ h.KeyFragment[Len(h.KeyFragment)] = h.Index
                         /\ h.Index \in 1..cmd.totalParts)
        /\ \A i, j \in 1..cmd.totalParts :
              i # j => FragmentsOfSplit[i][33] # FragmentsOfSplit[j][33]

\* A split into 3 horcruxes with headers has returned.
C14_Witness ==
    /\ FreshSplit /\ ~cmd.isHeaderless
    /\ cmd.totalParts = 3 /\ cmd.threshold = 3
    /\ NewReader(cmd.disk[3]).header.KeyFragment[33] = 3

\* C18: a bind of the directory without --overwrite writes no file under a
\* name the output directory holds already, and returns no error for it;
\* with --overwrite it writes under such a name only a plaintext that
\* JoinPipeline returned without error, authenticated by gcm.Open.
C18_OverwriteProtection ==
    (cmd.phase = "bound" /\ cmd.mode = "directory") =>
        /\ ~cmd.overwrite =>
              /\ \A g \in cmd.result.groups : g.name \in Taken => ~g.wrote
              /\ \A f \in cmd.out : f.name \notin Taken
              /\ (\E g \in cmd.result.groups : g.step = "file already exists")
                    => cmd.err = ""
        /\ cmd.overwrite =>
              \A g \in cmd.result.groups :
                 (g.wrote /\ g.name \in Taken) =>
                    /\ g.join.err = ""
                    /\ OpensUnder(g.shardMap, g.key, g.total, g.threshold)
                    /\ [name |-> g.name, data |-> g.join.data] \in cmd.out

\* A bind without --overwrite, the original still in the directory, joined
\* the shards without error and wrote nothing.
C18_Witness ==
    /\ cmd.phase = "bound" /\ cmd.mode = "directory"
    /\ ~cmd.overwrite /\ cmd.original
    /\ cmd.out = {}
    /\ \E g \in cmd.result.groups :
          g.step = "file already exists" /\ g.join.err = "" /\ g.join.data = cmd.input

\* A bind with --overwrite replaced the original by the plaintext.
OverwriteReplaces ==
    /\ cmd.phase = "bound" /\ cmd.mode = "directory"
    /\ cmd.overwrite /\ cmd.original
    /\ cmd.out = {[name |-> OriginalName, data |-> cmd.input]}

(***************************************************************************)
(* Specification SpecForge: an input file is split; one horcrux file is    *)
(* copied under another name, or one is rewritten with a forged header     *)
(* that keeps the file name and the timestamp; then the directory is       *)
(* bound, or the horcrux files selected in the file browser are.           *)
(***************************************************************************)
\* The headers a forger can put in place of header h: another index,
\* another total or another threshold; each passes Header.Validate.
ForgedHeaders(h) ==
    {f \in    {[h EXCEPT !.Index = j] : j \in 1..h.Total}
        \cup {[h EXCEPT !.Total = h.Total + 1]}
        \cup {[h EXCEPT !.Threshold = t] : t \in 2..h.Total} :
        f # h /\ Validate(f) = ""}

\* cp of a horcrux file: the copy is one more file of the directory.
CopyFile ==
    /\ cmd.phase = "split" /\ ~cmd.isHeaderless /\ cmd.damage.kind = "none"
    /\ \E i \in 1..cmd.totalParts :
         cmd' = [cmd EXCEPT !.disk = [j \in (DOMAIN cmd.disk) \cup {cmd.totalParts + i} |->
                                         IF j = cmd.totalParts + i THEN cmd.disk[i]
                                         ELSE cmd.disk[j]],
                            !.damage = [kind |-> "copy", file |-> i]]
    /\ UNCHANGED <<shamir, secrecy, rs, pipe, container, stego, keybuf>>

\* A horcrux file is written anew, its body under a forged header.
ForgeHeader ==
    /\ cmd.phase = "split" /\ ~cmd.isHeaderless /\ cmd.damage.kind = "none"
    /\ \E i \in 1..cmd.totalParts :
       \E r \in {NewReader(cmd.disk[i])} :
       \E f \in ForgedHeaders(r.header) :
         cmd' = [cmd EXCEPT !.disk[i] = WriterWrite(f, r.body, FALSE).out,
                            !.damage = [kind |-> "forge", file |-> i]]
    /\ UNCHANGED <<shamir, secrecy, rs, pipe, container, stego, keybuf>>

ForgeNext ==
    \/ DoSplit
    \/ CopyFile
    \/ ForgeHeader
    \/ DoBind
    \/ DoInteractiveBind

SpecForge == CmdInit /\ [][ForgeNext]_vars

\* Whether bind handed the group to shamir.Combine.
HandedToCombine(g) == g.step # "not enough horcruxes"

\* C15: in every group that a bind, of the directory or interactive, hands
\* to key reconstruction, all members have the same total and the same
\* threshold and no two members have the same header index.
C15_GroupInvariant ==
    cmd.phase = "bound" =>
        \A g \in cmd.result.groups :
           HandedToCombine(g) =>
              \A h1, h2 \in Members(g) :
                 /\ h1.Header.Total = h2.Header.Total
                 /\ h1.Header.Threshold = h2.Header.Threshold
                 /\ h1 # h2 => h1.Header.Index # h2.Header.Index

\* A bind of the directory that holds horcrux 1 of 2 twice handed both
\* copies to shamir.Combine, which panicked.
C15_Witness ==
    /\ cmd.phase = "bound" /\ cmd.mode = "directory"
    /\ cmd.totalParts = 2 /\ cmd.damage = [kind |-> "copy", file |-> 1]
    /\ BoundOver = {1, 2, 3}
    /\ \E g \in cmd.result.groups : g.step = "panic" /\ g.size = 3

\* A bind handed JoinPipeline a group whose members disagree on the total.
GroupWithTwoTotals ==
    /\ cmd.phase = "bound" /\ cmd.damage.kind = "forge"
    /\ \E g \in cmd.result.groups :
          /\ g.join.stage # "none"
          /\ \E h1, h2 \in Members(g) : h1.Header.Total # h2.Header.Total

\* A bind over horcrux files none of which was copied or forged keeps the
\* group invariant.
GroupInvariantOfOneSplit ==
    (cmd.phase = "bound" /\ cmd.damage.kind = "none") =>
        \A g \in cmd.result.groups :
           \A h1, h2 \in Members(g) :
              /\ h1.Header.Total = h2.Header.Total
              /\ h1.Header.Threshold = h2.Header.Threshold
              /\ h1 # h2 => h1.Header.Index # h2.Header.Index

\* No bind wrote a file that differs from the input of the split.
ForgeWritesOnlyInput ==
    cmd.phase = "bound" => \A f \in cmd.out : f.data = cmd.input

(***************************************************************************)
(* Specification SpecValidate: split is run with any number of parts and   *)
(* any threshold, from 0 up to and beyond the 255 shares of shamir.Split.  *)
(***************************************************************************)
\* Numbers of parts and thresholds at and beyond the limit of shamir.Split.
ManyParts == {255, 256, 257}

ValidateInit ==
    /\ cmd \in {[phase |-> "start", input |-> p, totalParts |-> n, threshold |-> t,
                 isHeaderless |-> FALSE, seed |-> 0, original |-> TRUE, disk |-> <<>>,
                 shardLen |-> 0, damage |-> [kind |-> "none", file |-> 0],
                 mode |-> "none", paths |-> <<>>, overwrite |-> FALSE, err |-> "",
                 result |-> NoResult, out |-> {}] :
                   p \in CmdInputs, n \in (0..MaxParts) \cup ManyParts,
                   t \in (0..MaxParts) \cup (ManyParts \ {255})}
    /\ shamir = Idle /\ secrecy = Idle /\ rs = Idle /\ pipe = Idle /\ container = Idle
    /\ stego = Idle /\ keybuf = Idle

SpecValidate == ValidateInit /\ [][DoSplit]_vars

\* C21: a split with (n, t) outside 2 <= t <= n <= 255 returns an error and
\* writes no horcrux file; a split with (n, t) inside it returns no error,
\* with n key fragments, n shards and n files.
C21_SplitValidation ==
    cmd.phase \in {"split", "rejected"} =>
        IF 2 <= cmd.threshold /\ cmd.threshold <= cmd.totalParts /\ cmd.totalParts <= 255
        THEN /\ cmd.phase = "split" /\ cmd.err = ""
             /\ Len(FragmentsOfSplit) = cmd.totalParts
             /\ Len(ShardsOfSplit) = cmd.totalParts
             /\ DOMAIN cmd.disk = 1..cmd.totalParts
        ELSE /\ cmd.phase = "rejected" /\ cmd.err # ""
             /\ cmd.disk = <<>>

\* A split into 256 parts with threshold 2 returned an error.
C21_Witness ==
    /\ cmd.phase = "rejected"
    /\ cmd.totalParts = 256 /\ cmd.threshold = 2
    /\ cmd.err = "failed to split key"
    /\ cmd.disk = <<>>

\* A split into 255 parts wrote 255 files.
SplitInto255 ==
    /\ cmd.phase = "split" /\ cmd.totalParts = 255
    /\ DOMAIN cmd.disk = 1..255

(***************************************************************************)
(* Specification SpecJoin: Splitter.Join is handed any map of shards, of   *)
(* any lengths, with keys inside and outside 0..Total-1.                   *)
(***************************************************************************)
MaxShardLen == 2

\* The shards a caller can supply: 0..MaxShardLen bytes each.
AnyShards == {[i \in 1..k |-> 7] : k \in 0..MaxShardLen}

\* Every map from some of the keys 0..MaxParts to shards.
AnyShardMaps == UNION {[keys -> AnyShards] : keys \in SUBSET (0..MaxParts)}

JoinInit ==
    /\ rs \in {[phase |-> "given", total |-> n, threshold |-> t, shards |-> m,
                result |-> [err |-> "", data |-> <<>>]] :
                   n \in 1..MaxParts, t \in 1..MaxParts, m \in AnyShardMaps}
    /\ NewSplitter(rs.total, rs.threshold) = ""
    /\ shamir = Idle /\ secrecy = Idle /\ pipe = Idle /\ container = Idle /\ cmd = Idle
    /\ stego = Idle /\ keybuf = Idle

\* splitter.Join(shards, 0)
DoJoin ==
    /\ rs.phase = "given"
    /\ rs' = [rs EXCEPT !.phase = "joined",
                        !.result = SplitterJoin(rs.shards, 0, rs.total, rs.threshold)]
    /\ UNCHANGED <<shamir, secrecy, pipe, container, cmd, stego, keybuf>>

SpecJoin == JoinInit /\ [][DoJoin]_vars

TooFewSupplied == Cardinality(DOMAIN rs.shards) < rs.threshold

UnevenSupplied == \E i, j \in DOMAIN rs.shards : Len(rs.shards[i]) # Len(rs.shards[j])

OutOfRangeSupplied == \E i \in DOMAIN rs.shards : i \notin 0..(rs.total - 1)

\* C22: Join returns an error when fewer than Threshold shards are
\* supplied, when the supplied shards are not all of one length, and when a
\* supplied shard has a key outside 0..Total-1.
C22_JoinRejects ==
    (rs.phase = "joined" /\ (TooFewSupplied \/ UnevenSupplied \/ OutOfRangeSupplied))
        => rs.result.err # ""

\* Join returned no error for Threshold shards of one length with keys in
\* range and one more shard under the key Total.
C22_Witness ==
    /\ rs.phase = "joined"
    /\ rs.total = 2 /\ rs.threshold = 2
    /\ DOMAIN rs.shards = {0, 1, 2}
    /\ \A i \in DOMAIN rs.shards : Len(rs.shards[i]) = 1
    /\ rs.result.err = ""

\* Join returns an error when fewer than Threshold shards are supplied, and
\* when two non-empty shards with keys in range differ in length.
JoinRejectsFewAndUnevenInRange ==
    (/\ rs.phase = "joined"
     /\ \/ TooFewSupplied
        \/ \E i, j \in (DOMAIN rs.shards) \cap (0..(rs.total - 1)) :
              /\ Len(rs.shards[i]) # 0 /\ Len(rs.shards[j]) # 0
              /\ Len(rs.shards[i]) # Len(rs.shards[j]))
        => rs.result.err # ""

\* Join returned no error although an empty shard was supplied beside
\* Threshold non-empty ones.
JoinAcceptsEmptyShard ==
    /\ rs.phase = "joined"
    /\ ~OutOfRangeSupplied /\ UnevenSupplied
    /\ rs.result.err = ""

\* Join returned no error although a longer shard was supplied under a key
\* out of range.
JoinIgnoresOutOfRange ==
    /\ rs.phase = "joined"
    /\ \E i \in DOMAIN rs.shards : i >= rs.total /\ Len(rs.shards[i]) = 2
    /\ \E i \in DOMAIN rs.shards : i < rs.total /\ Len(rs.shards[i]) = 1
    /\ rs.result.err = ""

(***************************************************************************)
(* Specification SpecPrefix: JoinPipeline is handed the shards of a        *)
(* payload whose first 8 bytes declare any length, true or false, up to    *)
(* 2^64-1; what follows them is a ciphertext of the key and some padding,  *)
(* or the payload is shorter than 8 bytes.                                 *)
(***************************************************************************)
\* The prefixes that declare a length of 2^24 or more: 2^24, 2^63, 2^64-8
\* and 2^64-1.
HugePrefixes ==
    {<<0, 0, 0, 1, 0, 0, 0, 0>>, <<0, 0, 0, 0, 0, 0, 0, 128>>,
     <<248, 255, 255, 255, 255, 255, 255, 255>>,
     <<255, 255, 255, 255, 255, 255, 255, 255>>}

\* The prefixes tried for a ciphertext of n bytes: the length declared, or
\* HugeLen, and the 8 bytes.
PrefixesFor(n) ==
    {[declared |-> d, bytes |-> LEBytes(d, 8)] : d \in {0, n - 1, n, n + 1, n + 2, n + 3}}
    \cup {[declared |-> HugeLen, bytes |-> b] : b \in HugePrefixes}

\* What follows the ciphertext in the payload.
Paddings == {<<>>, <<0>>, <<9, 9>>}

\* A payload of k bytes 1, k < 8, read as a little-endian number once the
\* shards have padded it with zeros, declares (256^k - 1) / 255.
PrefixPayloads ==
    {[declared |-> IF k >= 4 THEN HugeLen ELSE (256 ^ k - 1) \div 255,
      payload |-> [i \in 1..k |-> 1]] : k \in 1..7}
    \cup UNION {
          {[declared |-> p.declared, payload |-> p.bytes \o ct \o pad] :
              p \in PrefixesFor(Len(ct)), pad \in Paddings} :
          ct \in {Encrypt(Compress(input), KeyOf(1, KeySize), 1).data : input \in Inputs}}

PrefixInit ==
    /\ \E pp \in PrefixPayloads, n \in 1..MaxParts, t \in 1..MaxParts :
          /\ t <= n
          /\ pipe = [phase |-> "given", payload |-> pp.payload, declared |-> pp.declared,
                     key |-> KeyOf(1, KeySize), total |-> n, threshold |-> t,
                     shards |-> SplitterSplit(pp.payload, n, t).shards,
                     result |-> [err |-> "", data |-> <<>>, stage |-> "none"]]
    /\ shamir = Idle /\ secrecy = Idle /\ rs = Idle /\ container = Idle /\ cmd = Idle
    /\ stego = Idle /\ keybuf = Idle

\* pipeline.JoinPipeline(shardMap, key, total, threshold) over all shards.
DoJoinPrefixed ==
    /\ pipe.phase = "given"
    /\ \E shardMap \in {[i \in 0..(pipe.total - 1) |-> pipe.shards[i + 1].Data]} :
         pipe' = [pipe EXCEPT !.phase = "joined",
                              !.result = JoinPipeline(shardMap, pipe.key, pipe.total,
                                                      pipe.threshold)]
    /\ UNCHANGED <<shamir, secrecy, rs, container, cmd, stego, keybuf>>

SpecPrefix == PrefixInit /\ [][DoJoinPrefixed]_vars

\* The payload the shards reconstruct.
Reconstructed == ZeroPadded(pipe.payload, pipe.threshold)

\* What Decrypt and Decompress make of the ciphertext c.
OpenedFrom(c) ==
    With(Decrypt(c, pipe.key), LAMBDA dec :
         IF dec.err # "" THEN [err |-> "decryption failed (integrity check)",
                               data |-> <<>>, stage |-> "decrypt"]
         ELSE With(Decompress(dec.data), LAMBDA plain :
              IF plain.err # "" THEN [err |-> "decompression failed", data |-> <<>>,
                                      stage |-> "decompress"]
              ELSE [err |-> "", data |-> plain.data, stage |-> "done"]))

\* C23: JoinPipeline returns an error from the prefix guard, and no
\* plaintext, when the reconstructed payload has fewer than 8 bytes or its
\* first 8 bytes declare more than len(payload) - 8, whatever 64-bit value
\* they hold; otherwise what it returns is what decryption makes of exactly
\* payload[8 .. 8+length].
C23_LengthPrefixGuard ==
    pipe.phase = "joined" =>
        IF Len(Reconstructed) < 8 \/ pipe.declared > Len(Reconstructed) - 8
        THEN /\ pipe.result.err # ""
             /\ pipe.result.stage = "prefix"
             /\ pipe.result.data = <<>>
        ELSE pipe.result =
                OpenedFrom(SubSeq(Reconstructed, 9, 8 + pipe.declared))

\* A prefix of 2^64-8, for which 8 + length is 0 in 64 bits, was refused by
\* the guard.
C23_Witness ==
    /\ pipe.phase = "joined"
    /\ Len(pipe.payload) >= 8
    /\ SubSeq(pipe.payload, 1, 8) = <<248, 255, 255, 255, 255, 255, 255, 255>>
    /\ pipe.result.stage = "prefix"
    /\ pipe.result.err = "reconstructed data is shorter than expected length"

\* A true prefix before a padded ciphertext gave the plaintext back.
PrefixStripsPadding ==
    /\ pipe.phase = "joined"
    /\ Len(Reconstructed) > 8 + pipe.declared
    /\ pipe.result.stage = "done"
    /\ Len(pipe.result.data) = MaxInputLen

\* A prefix one short of the ciphertext passed the guard and failed in
\* decryption.
PrefixOneShort ==
    /\ pipe.phase = "joined"
    /\ pipe.declared > 0 /\ pipe.declared < HugeLen
    /\ pipe.result.stage = "decrypt"

(***************************************************************************)
(* Specification SpecCipher: encryptor.Encrypt and encryptor.Decrypt on    *)
(* keys of every length around the three AES key sizes and on blobs        *)
(* around the nonce and tag sizes.                                         *)
(***************************************************************************)
CipherKeySizes == {0, 15, 16, 17, 24, 31, 32, 33}

\* Blobs that no Encrypt produced, of the lengths around NonceSize and
\* NonceSize + TagSize.
ShortBlobs ==
    {[i \in 1..k |-> 0] : k \in {0, 1, NonceSize - 1, NonceSize, NonceSize + TagSize}}

CipherInit ==
    /\ \E size \in CipherKeySizes, plaintext \in Inputs, seed \in 1..MaxSeed :
          pipe = [phase |-> "start", key |-> KeyOf(seed, size), plaintext |-> plaintext,
                  seed |-> seed, blob |-> <<>>,
                  sealed |-> [err |-> "", data |-> <<>>],
                  opened |-> [err |-> "", data |-> <<>>]]
    /\ shamir = Idle /\ secrecy = Idle /\ rs = Idle /\ container = Idle /\ cmd = Idle
    /\ stego = Idle /\ keybuf = Idle

\* encryptor.Encrypt(plaintext, key)
DoEncrypt ==
    /\ pipe.phase = "start"
    /\ pipe' = [pipe EXCEPT !.phase = "sealed",
                            !.sealed = Encrypt(pipe.plaintext, pipe.key, pipe.seed)]
    /\ UNCHANGED <<shamir, secrecy, rs, container, cmd, stego, keybuf>>

\* encryptor.Decrypt(blob, key), the blob being what Encrypt returned, a
\* beginning of it, or one of ShortBlobs.
DoDecrypt ==
    /\ pipe.phase = "sealed"
    /\ \E blob \in ShortBlobs
                   \cup {SubSeq(pipe.sealed.data, 1, k) : k \in 0..Len(pipe.sealed.data)} :
         pipe' = [pipe EXCEPT !.phase = "opened", !.blob = blob,
                              !.opened = Decrypt(blob, pipe.key)]
    /\ UNCHANGED <<shamir, secrecy, rs, container, cmd, stego, keybuf>>

CipherNext == DoEncrypt \/ DoDecrypt

SpecCipher == CipherInit /\ [][CipherNext]_vars

\* C24: Encrypt and Decrypt return an error for every key whose length is
\* not exactly 32 bytes, and Decrypt returns an error for every blob shorter
\* than the 12-byte nonce.
C24_RejectsKeysNot32 ==
    /\ (pipe.phase \in {"sealed", "opened"} /\ Len(pipe.key) # KeySize)
          => pipe.sealed.err # ""
    /\ (pipe.phase = "opened" /\ Len(pipe.key) # KeySize) => pipe.opened.err # ""
    /\ (pipe.phase = "opened" /\ Len(pipe.blob) < NonceSize) => pipe.opened.err # ""

\* A 16-byte key encrypted a plaintext and decrypted it again.
C24_Witness ==
    /\ pipe.phase = "opened"
    /\ Len(pipe.key) = 16
    /\ pipe.sealed.err = ""
    /\ pipe.blob = pipe.sealed.data
    /\ pipe.opened.err = ""
    /\ pipe.opened.data = pipe.plaintext
    /\ Len(pipe.plaintext) = MaxInputLen

\* A 24-byte key encrypted a plaintext without error.
Encrypts24ByteKey ==
    /\ pipe.phase = "sealed"
    /\ Len(pipe.key) = 24
    /\ pipe.sealed.err = ""

\* What holds of the claim: keys of a length other than 16, 24 and 32 are
\* refused by both functions, and Decrypt refuses every blob shorter than the
\* nonce, and every blob shorter than nonce and tag.
CipherRejectsNonAESKeysAndShortBlobs ==
    /\ (pipe.phase \in {"sealed", "opened"} /\ Len(pipe.key) \notin {16, 24, 32})
          => pipe.sealed.err # ""
    /\ (pipe.phase = "opened" /\ Len(pipe.key) \notin {16, 24, 32})
          => pipe.opened.err # ""
    /\ (pipe.phase = "opened" /\ Len(pipe.blob) < NonceSize + TagSize)
          => pipe.opened.err # ""

\* Decrypt refused a blob of NonceSize - 1 bytes under a 32-byte key.
RejectsBlobShorterThanNonce ==
    /\ pipe.phase = "opened"
    /\ Len(pipe.key) = KeySize
    /\ Len(pipe.blob) = NonceSize - 1
    /\ pipe.opened.err = "ciphertext too short"

(***************************************************************************)
(* Specification SpecParse: format.NewReader on byte streams that no       *)
(* Writer produced: lines before the header marker, a marker line that is  *)
(* exact, padded with white space, followed by another character or        *)
(* absent, a header text that is or is not JSON, and the same for the body *)
(* marker.                                                                 *)
(***************************************************************************)
\* k lines "x\n".
FillerLines(k) == [i \in 1..(2 * k) |-> IF i % 2 = 1 THEN 120 ELSE 10]

\* The numbers of lines before the header marker line.
LinesBefore == {0, 1, MaxHeaderScanLines - 1, MaxHeaderScanLines}

MarkerKinds == {"exact", "padded", "suffixed", "unterminated", "absent"}

\* The line that holds marker: alone on its line, between a tab and " \r",
\* followed by an "x", without its newline, or not at all.
MarkerLineOf(marker, kind) ==
    IF kind = "exact" THEN marker \o <<10>>
    ELSE IF kind = "padded" THEN <<9>> \o marker \o <<32, 13, 10>>
    ELSE IF kind = "suffixed" THEN marker \o <<120, 10>>
    ELSE IF kind = "unterminated" THEN marker
    ELSE <<>>

JsonKinds == {"valid", "index0", "threshold1", "truncated", "garbage", "empty"}

\* The text between the markers: a header that passes Validate, one with
\* index 0, one with threshold 1, a header without its closing brace, "random
\* garbage", or nothing.
JsonTextOf(kind) ==
    IF kind = "valid" THEN MarshalHeader(BaseHeader) \o <<10>>
    ELSE IF kind = "index0" THEN MarshalHeader([BaseHeader EXCEPT !.Index = 0]) \o <<10>>
    ELSE IF kind = "threshold1"
         THEN MarshalHeader([BaseHeader EXCEPT !.Threshold = 1]) \o <<10>>
    ELSE IF kind = "truncated"
         THEN SubSeq(MarshalHeader(BaseHeader), 1, Len(MarshalHeader(BaseHeader)) - 1)
                 \o <<10>>
    ELSE IF kind = "garbage"
         THEN <<114, 97, 110, 100, 111, 109, 32, 103, 97, 114, 98, 97, 103, 101, 10>>
    ELSE <<>>

ParseInit ==
    /\ \E before \in LinesBefore, hk \in MarkerKinds, jk \in JsonKinds, bk \in MarkerKinds,
          body \in {<<>>, <<1, 10, 2>>} :
          container = [phase |-> "given", before |-> before, headerKind |-> hk,
                       jsonKind |-> jk, bodyKind |-> bk, body |-> body,
                       data |-> FillerLines(before) \o MarkerLineOf(HeaderMarker, hk)
                                  \o JsonTextOf(jk) \o MarkerLineOf(BodyMarker, bk) \o body,
                       read |-> [err |-> "", header |-> NoHeader, body |-> <<>>]]
    /\ shamir = Idle /\ secrecy = Idle /\ rs = Idle /\ pipe = Idle /\ cmd = Idle
    /\ stego = Idle /\ keybuf = Idle

\* format.NewReader(bytes.NewReader(data))
DoParse ==
    /\ container.phase = "given"
    /\ container' = [container EXCEPT !.phase = "read", !.read = NewReader(container.data)]
    /\ UNCHANGED <<shamir, secrecy, rs, pipe, cmd, stego, keybuf>>

SpecParse == ParseInit /\ [][DoParse]_vars

\* C25: NewReader returns an error or a header that satisfies Validate; it
\* returns an error when no line equal to the header marker is among the
\* first 50 lines, when the stream ends before a line equal to the body
\* marker, and when the text between the markers is not valid JSON.
C25_GracefulParsing ==
    container.phase = "read" =>
        /\ container.read.err = "" => Validate(container.read.header) = ""
        /\ (container.headerKind # "exact" \/ container.before >= MaxHeaderScanLines)
              => container.read.err # ""
        /\ container.bodyKind # "exact" => container.read.err # ""
        /\ container.jsonKind \in {"truncated", "garbage", "empty"}
              => container.read.err # ""

\* A stream whose header marker line is "\t-- HEADER -- \r\n" was parsed
\* without error.
C25_Witness ==
    /\ container.phase = "read"
    /\ container.headerKind = "padded"
    /\ container.bodyKind = "exact"
    /\ container.read.err = ""
    /\ container.read.header = BaseHeader
    /\ container.read.body = <<1, 10, 2>>

\* What holds of the claim: the header returned satisfies Validate, and the
\* three errors are returned with "a line that trims to the marker and ends
\* in a newline" for "a line equal to the marker".
ParsesGracefullyUpToWhiteSpace ==
    container.phase = "read" =>
        /\ container.read.err = "" => Validate(container.read.header) = ""
        /\ (container.headerKind \notin {"exact", "padded"}
               \/ container.before >= MaxHeaderScanLines) => container.read.err # ""
        /\ container.bodyKind \notin {"exact", "padded"} => container.read.err # ""
        /\ container.jsonKind # "valid" => container.read.err # ""

\* The marker on line 50 was found, and the header and the body returned.
ParsesMarkerOnLine50 ==
    /\ container.phase = "read"
    /\ container.before = MaxHeaderScanLines - 1
    /\ container.read.err = ""
    /\ container.read.body = container.body

\* A body marker that ends the stream without a newline gave an error.
RejectsUnterminatedBodyMarker ==
    /\ container.phase = "read"
    /\ container.headerKind = "exact" /\ container.jsonKind = "valid"
    /\ container.before = 0
    /\ container.bodyKind = "unterminated" /\ container.body = <<>>
    /\ container.read.err = "failed to read stream while reading header json"

(***************************************************************************)
(* Groups below the threshold, in SpecForge.                               *)
(***************************************************************************)
\* The header indices of the horcruxes of the group g.
DistinctIndices(g) == {h.Header.Index : h \in Members(g)}

\* C26: for every group in which the number of horcruxes with distinct
\* indices is smaller than the threshold, bind hands nothing to key
\* reconstruction and writes no output file for that group.
C26_BelowThresholdSkipped ==
    cmd.phase = "bound" =>
        \A g \in cmd.result.groups :
           Cardinality(DistinctIndices(g)) < g.threshold =>
              ~HandedToCombine(g) /\ ~g.wrote

\* Horcrux 1 of a 2-of-2 split and a copy of it, selected in the file
\* browser: one distinct index, two files, and shamir.Combine was called and
\* panicked.
C26_Witness ==
    /\ cmd.phase = "bound" /\ cmd.mode = "interactive"
    /\ cmd.totalParts = 2 /\ cmd.threshold = 2
    /\ cmd.damage = [kind |-> "copy", file |-> 1]
    /\ BoundOver = {1, 3}
    /\ \E g \in cmd.result.groups :
          /\ Cardinality(DistinctIndices(g)) = 1
          /\ g.size = 2
          /\ g.step = "panic"

\* A bind of the directory whose second horcrux of 2 had its header index
\* forged to 1 rebuilt the key and went on to JoinPipeline with one shard.
RebuildsKeyBelowThreshold ==
    /\ cmd.phase = "bound" /\ cmd.mode = "directory"
    /\ cmd.totalParts = 2 /\ cmd.damage = [kind |-> "forge", file |-> 2]
    /\ \E g \in cmd.result.groups :
          /\ Cardinality(DistinctIndices(g)) = 1
          /\ g.key = KeyOf(cmd.seed, KeySize)
          /\ g.join.stage = "join"
          /\ ~g.wrote

\* What holds of the claim: a group with fewer files than the threshold is
\* not handed to key reconstruction, and a group with fewer distinct indices
\* than the threshold gets no output file.
FewFilesSkippedFewIndicesUnwritten ==
    cmd.phase = "bound" =>
        \A g \in cmd.result.groups :
           /\ Cardinality(Members(g)) < g.threshold => ~HandedToCombine(g)
           /\ Cardinality(DistinctIndices(g)) < g.threshold => ~g.wrote

\* The browser bind of one horcrux of two ended at the threshold test.
SkipsSingleHorcrux ==
    /\ cmd.phase = "bound" /\ cmd.mode = "interactive"
    /\ cmd.threshold = 2 /\ Len(cmd.paths) = 1
    /\ cmd.err = "not enough shards"
    /\ cmd.out = {}

(***************************************************************************)
(* Specification SpecIsolate: one directory holds the horcrux files of two *)
(* splits, of "a.t" and of "b.t"; a file that is no horcrux may be added   *)
(* and the group of "b.t" may be broken; then the directory is bound, the  *)
(* groups taken in one of the orders that Go's map iteration can give.     *)
(***************************************************************************)
\* "b.t" and what it holds.
OtherName == <<98, 46, 116>>
OtherInput == <<66, 10>>

\* The horcrux files that a split of a file called name writes: those of
\* RunSplit under a header with that name.
SplitFilesAs(name, input, totalParts, threshold, seed) ==
    With(RunSplit(input, totalParts, threshold, FALSE, seed).files, LAMBDA files :
         [i \in 1..Len(files) |->
             With(NewReader(files[i]), LAMBDA r :
                  WriterWrite([r.header EXCEPT !.OriginalFilename = name], r.body,
                              FALSE).out)])

\* .horcrux files that are no horcruxes: an empty file, "random garbage", a
\* header marker and nothing else, the bytes of a headerless shard, and a
\* horcrux cut off before its body marker.
GarbageFiles ==
    {<<>>,
     <<114, 97, 110, 100, 111, 109, 32, 103, 97, 114, 98, 97, 103, 101>>,
     HeaderMarker \o <<10>>,
     <<0, 255, 10, 7>>,
     MagicHeader1 \o HeaderMarker \o <<10>> \o MarshalHeader(BaseHeader) \o <<10>>}

\* bindCmd.RunE, step 4 on: the loop over the groups, taken in the order gs.
\* A panic of shamir.Combine ends the run: the groups after it are never
\* looked at.
RECURSIVE processGroups(_, _, _, _)
processGroups(gs, k, taken, overwrite) ==
    IF k > Len(gs) THEN [err |-> "", groups |-> {}]
    ELSE IF gs[k].step = "panic"
    THEN [err |-> "panic",
          groups |-> {gs[k]} \cup {[gs[j] EXCEPT !.step = "not reached"] :
                                      j \in (k + 1)..Len(gs)}]
    ELSE With(writeOutput(gs[k], taken, overwrite), LAMBDA g :
         With(processGroups(gs, k + 1, IF g.wrote THEN taken \cup {g.name} ELSE taken,
                            overwrite), LAMBDA rest :
         [err |-> rest.err, groups |-> {g} \cup rest.groups]))

\* The paths of the files of "b.t" are those of "a.t" plus OtherBase.
OtherBase == 2 * MaxParts

IsolateInit ==
    /\ cmd \in {[phase |-> "start", input |-> p, totalParts |-> n, threshold |-> t,
                 disk |-> <<>>, garbage |-> FALSE, broken |-> "none", paths |-> <<>>,
                 first |-> <<>>, err |-> "", result |-> NoResult, out |-> {}] :
                   p \in CmdInputs, n \in 2..MaxParts, t \in 2..MaxParts}
    /\ cmd.threshold <= cmd.totalParts
    /\ shamir = Idle /\ secrecy = Idle /\ rs = Idle /\ pipe = Idle /\ container = Idle
    /\ stego = Idle /\ keybuf = Idle

\* horcrux split a.t and horcrux split b.t into one directory.
SplitBoth ==
    /\ cmd.phase = "start"
    /\ \E seed \in 1..MaxSeed :
       \E a \in {SplitFilesAs(OriginalName, cmd.input, cmd.totalParts, cmd.threshold,
                              seed)} :
       \E b \in {SplitFilesAs(OtherName, OtherInput, cmd.totalParts, cmd.threshold,
                              (seed % MaxSeed) + 1)} :
         cmd' = [cmd EXCEPT !.phase = "split",
                            !.disk = [j \in (1..cmd.totalParts)
                                            \cup ((OtherBase + 1)..(OtherBase + cmd.totalParts))
                                        |-> IF j <= cmd.totalParts THEN a[j]
                                            ELSE b[j - OtherBase]]]
    /\ UNCHANGED <<shamir, secrecy, rs, pipe, container, stego, keybuf>>

\* A file that is no horcrux is put into the directory, first in its listing.
AddGarbage ==
    /\ cmd.phase = "split" /\ ~cmd.garbage
    /\ \E file \in GarbageFiles :
         cmd' = [cmd EXCEPT !.garbage = TRUE,
                            !.disk = [j \in (DOMAIN cmd.disk) \cup {0} |->
                                         IF j = 0 THEN file ELSE cmd.disk[j]]]
    /\ UNCHANGED <<shamir, secrecy, rs, pipe, container, stego, keybuf>>

\* The group of "b.t" is broken: the first byte of the shard in its first
\* file is changed, or so many of its files are deleted that fewer than the
\* threshold are left, or its second file is replaced by a copy of its
\* first.
BreakGroup ==
    /\ cmd.phase = "split" /\ cmd.broken = "none"
    /\ \E kind \in {"tamper", "delete", "duplicate"} :
         cmd' = [cmd EXCEPT
                   !.broken = kind,
                   !.disk =
                      IF kind = "tamper"
                      THEN With(Len(cmd.disk[OtherBase + 1])
                                  - Len(NewReader(cmd.disk[OtherBase + 1]).body) + 1,
                                LAMBDA at :
                                [cmd.disk EXCEPT ![OtherBase + 1][at] = add(@, 1)])
                      ELSE IF kind = "delete"
                      THEN [j \in (DOMAIN cmd.disk)
                                    \ ((OtherBase + cmd.threshold)..(OtherBase + cmd.totalParts))
                              |-> cmd.disk[j]]
                      ELSE [cmd.disk EXCEPT ![OtherBase + 2] = cmd.disk[OtherBase + 1]]]
    /\ UNCHANGED <<shamir, secrecy, rs, pipe, container, stego, keybuf>>

\* horcrux bind of the directory, into an empty output directory.
BindBoth ==
    /\ cmd.phase = "split"
    /\ \E paths \in {SortedSeq(DOMAIN cmd.disk)} :
       \E groups \in {bindGroups(cmd.disk, paths)} :
       \E gs \in {q \in SeqsNoRep(groups) : Len(q) = Cardinality(groups)} :
       \E r \in {processGroups(gs, 1, {}, FALSE)} :
         cmd' = [cmd EXCEPT !.phase = "bound", !.paths = paths, !.first = gs[1].name,
                            !.result = r, !.err = r.err, !.out = filesWritten(r)]
    /\ UNCHANGED <<shamir, secrecy, rs, pipe, container, stego, keybuf>>

IsolateNext == SplitBoth \/ AddGarbage \/ BreakGroup \/ BindBoth

SpecIsolate == IsolateInit /\ [][IsolateNext]_vars

\* C27: files of the directory that fail to parse are skipped and the group
\* that has its threshold of valid horcruxes is restored exactly; a group
\* whose reconstruction or authentication fails does not keep another group
\* of the same run from being restored.
C27_FailuresIsolated ==
    cmd.phase = "bound" =>
        /\ [name |-> OriginalName, data |-> cmd.input] \in cmd.out
        /\ cmd.broken = "none" => [name |-> OtherName, data |-> OtherInput] \in cmd.out

\* The group of "b.t", which holds one horcrux twice, was taken first:
\* shamir.Combine panicked and "a.t" was not restored.
C27_Witness ==
    /\ cmd.phase = "bound"
    /\ cmd.broken = "duplicate" /\ cmd.first = OtherName
    /\ cmd.err = "panic"
    /\ cmd.out = {}

\* What holds of the claim: unless shamir.Combine panics, every group that
\* is whole is restored exactly, whatever else the directory holds and
\* whatever became of the other group.
IsolatedUnlessPanic ==
    (cmd.phase = "bound" /\ cmd.err # "panic") =>
        /\ [name |-> OriginalName, data |-> cmd.input] \in cmd.out
        /\ cmd.broken = "none" => [name |-> OtherName, data |-> OtherInput] \in cmd.out
        /\ cmd.broken # "none" => \A f \in cmd.out : f.name # OtherName

\* Both groups were restored beside a file that is no horcrux.
RestoresBothBesideGarbage ==
    /\ cmd.phase = "bound" /\ cmd.garbage /\ cmd.broken = "none"
    /\ Len(cmd.input) = MaxInputLen
    /\ cmd.out = {[name |-> OriginalName, data |-> cmd.input],
                  [name |-> OtherName, data |-> OtherInput]}

\* "a.t" was restored although the shard of "b.t" failed its authentication
\* before it.
RestoresAfterFailedAuthentication ==
    /\ cmd.phase = "bound" /\ cmd.broken = "tamper" /\ cmd.first = OtherName
    /\ cmd.err = ""
    /\ \E g \in cmd.result.groups :
          g.name = OtherName /\ g.step = "reconstruction pipeline failed"
    /\ cmd.out = {[name |-> OriginalName, data |-> cmd.input]}

(***************************************************************************)
(* The frame condition of Embed, in SpecStego.                             *)
(***************************************************************************)
\* The 4 bytes of the big-endian length and the payload.
FullPayload == PutUint32(Len(stego.data)) \o stego.data

\* C28: the image Embed returns has the dimensions of the carrier and
\* differs from it only in the least significant bit of the R, G and B
\* values at the first 32 + 8 * len(d) channel positions in row-major order;
\* every alpha value, every higher bit and every later channel value is that
\* of the carrier; those bits are the bits of the 4-byte big-endian length
\* followed by d, most significant first; the carrier is not modified.
C28_EmbedFrameCondition ==
    (stego.phase \in {"embedded", "extracted"} /\ stego.embedded.err = "") =>
        With(stego.embedded.image, LAMBDA out :
        With(stego.original, LAMBDA carrier :
        With(32 + 8 * Len(stego.data), LAMBDA written :
        /\ out.width = carrier.width /\ out.height = carrier.height
        /\ DOMAIN out.pix = DOMAIN carrier.pix
        /\ out.alpha = carrier.alpha
        /\ \A i \in DOMAIN out.pix :
              /\ out.pix[i] \div 2 = carrier.pix[i] \div 2
              /\ i > written => out.pix[i] = carrier.pix[i]
        /\ \A k \in 1..Len(FullPayload) :
              lsbValue(out.pix, 8 * (k - 1) + 1, 8) = FullPayload[k]
        /\ stego.carrier = carrier)))

\* A payload that is not empty was embedded in a carrier with room to
\* spare, some of the written bits differ from the carrier's, and the pixels
\* have alpha values that are not 255.
C28_Witness ==
    /\ stego.phase = "embedded" /\ stego.embedded.err = ""
    /\ Len(stego.data) >= 1
    /\ 3 * stego.carrier.width * stego.carrier.height > 32 + 8 * Len(stego.data)
    /\ \E i \in 1..(32 + 8 * Len(stego.data)) :
          stego.embedded.image.pix[i] # stego.original.pix[i]
    /\ \E p \in DOMAIN stego.original.alpha : stego.original.alpha[p] # 255

(***************************************************************************)
(* Specification SpecPermute: shamir.Combine is handed a list of shares    *)
(* and then the same shares in another order.                              *)
(***************************************************************************)
\* The shares: an x-coordinate alone, or a byte and an x-coordinate.
PermuteXs == {1, 2, 255}
PermuteYs == {0, 1, 200}
PermuteShares ==
    {<<x>> : x \in PermuteXs} \cup {<<y, x>> : y \in PermuteYs, x \in PermuteXs}

\* The bijections of 1..n.
OrdersOf(n) == {p \in [1..n -> 1..n] : IsInjective(p)}

PermuteInit ==
    /\ \E parts \in SeqsOf(PermuteShares, 2, MaxParts) :
          shamir = [phase |-> "given", parts |-> parts, permuted |-> <<>>,
                    result |-> [outcome |-> "none", secret |-> <<>>],
                    again  |-> [outcome |-> "none", secret |-> <<>>]]
    /\ secrecy = Idle /\ rs = Idle /\ pipe = Idle /\ container = Idle /\ cmd = Idle
    /\ stego = Idle /\ keybuf = Idle

\* shamir.Combine(parts)
CombineGiven ==
    /\ shamir.phase = "given"
    /\ shamir' = [shamir EXCEPT !.phase = "combined",
                                !.result = ShamirCombine(shamir.parts)]
    /\ UNCHANGED <<secrecy, rs, pipe, container, cmd, stego, keybuf>>

\* shamir.Combine of the same shares in the order p.
CombinePermuted ==
    /\ shamir.phase = "combined"
    /\ \E p \in OrdersOf(Len(shamir.parts)) :
       \E permuted \in {[i \in 1..Len(shamir.parts) |-> shamir.parts[p[i]]]} :
         shamir' = [shamir EXCEPT !.phase = "permuted", !.permuted = permuted,
                                  !.again = ShamirCombine(permuted)]
    /\ UNCHANGED <<secrecy, rs, pipe, container, cmd, stego, keybuf>>

PermuteNext == CombineGiven \/ CombinePermuted

SpecPermute == PermuteInit /\ [][PermuteNext]_vars

\* C29: for every list of shares that Combine accepts, Combine of every
\* permutation of the list returns the same secret and no error.
C29_CombineOrderIndependent ==
    (shamir.phase = "permuted" /\ shamir.result.outcome = "ok") =>
        shamir.again = shamir.result

\* Three shares with three x-coordinates and three different bytes gave the
\* same secret in another order.
C29_Witness ==
    /\ shamir.phase = "permuted"
    /\ Len(shamir.parts) = 3
    /\ shamir.permuted # shamir.parts
    /\ shamir.permuted[1] # shamir.parts[1]
    /\ {shamir.parts[i][1] : i \in 1..3} = PermuteYs
    /\ shamir.result.outcome = "ok"
    /\ Len(shamir.result.secret) = 1
    /\ shamir.again = shamir.result

\* Lists that Combine refuses or that make it panic do so in every order.
PermutedOutcomeSame ==
    shamir.phase = "permuted" => shamir.again.outcome = shamir.result.outcome

(***************************************************************************)
(* Specification SpecContain: an input file is split, the headers of all   *)
(* its horcrux files may be rewritten with another originalFilename, and   *)
(* the directory is bound, with or without a destination directory, or     *)
(* from the file browser.  A path is the sequence of its components from   *)
(* the root; the working directory is /w and holds the directory out.      *)
(***************************************************************************)
\* "w", "out" and the directories that exist.
Cwd == <<<<119>>>>
OutDirName == <<111, 117, 116>>
Directories == {<<>>, Cwd, Cwd \o <<OutDirName>>}

\* "a.t", "x", "./x", "../x", "d/../../x", "/x", "d/x" and "..".
HeaderNames ==
    {OriginalName, <<120>>, <<46, 47, 120>>, <<46, 46, 47, 120>>,
     <<100, 47, 46, 46, 47, 46, 46, 47, 120>>, <<47, 120>>, <<100, 47, 120>>, <<46, 46>>}

\* The parts of name between its separators.
RECURSIVE Components(_)
Components(name) ==
    With({i \in 1..Len(name) : name[i] = 47}, LAMBDA seps :
         IF seps = {} THEN <<name>>
         ELSE With(CHOOSE i \in seps : \A j \in seps : i <= j, LAMBDA i :
              <<SubSeq(name, 1, i - 1)>> \o Components(SubSeq(name, i + 1, Len(name)))))

\* filepath.Clean of a path from the root: "" and "." are dropped, ".."
\* drops the component before it, and stays at the root.
RECURSIVE cleanFrom(_, _, _)
cleanFrom(comps, k, acc) ==
    IF k > Len(comps) THEN acc
    ELSE IF comps[k] \in {<<>>, <<46>>} THEN cleanFrom(comps, k + 1, acc)
    ELSE IF comps[k] = <<46, 46>>
    THEN cleanFrom(comps, k + 1, IF acc = <<>> THEN acc ELSE SubSeq(acc, 1, Len(acc) - 1))
    ELSE cleanFrom(comps, k + 1, Append(acc, comps[k]))

\* finalPath := filepath.Join(outDir, OriginalFilename), or OriginalFilename
\* itself if outDir is "", as the operating system resolves it from Cwd.
finalPathOf(outDir, name) ==
    IF outDir = <<>>
    THEN IF name[1] = 47 THEN cleanFrom(Components(name), 1, <<>>)
         ELSE cleanFrom(Cwd \o Components(name), 1, <<>>)
    ELSE cleanFrom(Cwd \o Components(outDir) \o Components(name), 1, <<>>)

\* outPath := filepath.Join(cwd, refHeader.OriginalFilename) of the browser.
browserPathOf(name) == cleanFrom(Cwd \o Components(name), 1, <<>>)

\* The directory bind is to write into.
DestinationOf(outDir) == IF outDir = <<>> THEN Cwd ELSE Cwd \o Components(outDir)

\* Whether path lies inside the directory dir.
Inside(path, dir) == Len(path) > Len(dir) /\ SubSeq(path, 1, Len(dir)) = dir

\* Whether os.WriteFile(path) succeeds: its directory exists and path is no
\* directory.
CanWrite(path) ==
    /\ path \notin Directories
    /\ path # <<>>
    /\ SubSeq(path, 1, Len(path) - 1) \in Directories

\* Step 7 of bindCmd.RunE for the group g: the files written, by path.
outputAt(g, path, overwrite) ==
    IF g.step # "joined" \/ g.join.err # "" THEN {}
    ELSE IF path \in Directories /\ ~overwrite THEN {}
    ELSE IF ~CanWrite(path) THEN {}
    ELSE {[path |-> path, data |-> g.join.data]}

\* The last step of runInteractiveBind: no test of what is there.
browserOutputAt(g, path) ==
    IF g.step # "resurrected" \/ ~CanWrite(path) THEN {}
    ELSE {[path |-> path, data |-> g.join.data]}

\* Every horcrux file gets the originalFilename name in its header.
RenameAll ==
    /\ cmd.phase = "split" /\ ~cmd.isHeaderless /\ cmd.damage.kind = "none"
    /\ \E name \in HeaderNames \ {OriginalName} :
         cmd' = [cmd EXCEPT
                   !.damage = [kind |-> "rename", file |-> 0],
                   !.disk = [i \in DOMAIN cmd.disk |->
                                With(NewReader(cmd.disk[i]), LAMBDA r :
                                     WriterWrite([r.header EXCEPT !.OriginalFilename = name],
                                                 r.body, FALSE).out)]]
    /\ UNCHANGED <<shamir, secrecy, rs, pipe, container, stego, keybuf>>

\* horcrux bind [-o out] [--overwrite] in /w, which holds the horcrux files.
BindInto ==
    /\ cmd.phase = "split" /\ ~cmd.isHeaderless
    /\ \E outDir \in {<<>>, OutDirName}, overwrite \in BOOLEAN :
       \E groups \in {bindGroups(cmd.disk, SortedSeq(DOMAIN cmd.disk))} :
         cmd' = [phase |-> "bound", mode |-> "directory", input |-> cmd.input,
                 renamed |-> cmd.damage.kind = "rename",
                 destination |-> DestinationOf(outDir), overwrite |-> overwrite,
                 groups |-> groups,
                 written |-> UNION {outputAt(g, finalPathOf(outDir, g.name), overwrite) :
                                       g \in groups}]
    /\ UNCHANGED <<shamir, secrecy, rs, pipe, container, stego, keybuf>>

\* 'b' in the file browser started in /w, all horcrux files selected.
BrowserBind ==
    /\ cmd.phase = "split" /\ ~cmd.isHeaderless
    /\ \E r \in {RunInteractiveBind(cmd.disk, SortedSeq(DOMAIN cmd.disk))} :
         cmd' = [phase |-> "bound", mode |-> "interactive", input |-> cmd.input,
                 renamed |-> cmd.damage.kind = "rename",
                 destination |-> Cwd, overwrite |-> TRUE,
                 groups |-> r.groups,
                 written |-> UNION {browserOutputAt(g, browserPathOf(g.name)) :
                                       g \in r.groups}]
    /\ UNCHANGED <<shamir, secrecy, rs, pipe, container, stego, keybuf>>

ContainNext == DoSplit \/ RenameAll \/ BindInto \/ BrowserBind

SpecContain == CmdInit /\ [][ContainNext]_vars

\* C30: every file bind writes lies inside the destination directory, or
\* the current directory when none is given, whatever originalFilename the
\* headers hold, and bind writes at most one file per group.
C30_OutputContained ==
    cmd.phase = "bound" =>
        /\ \A f \in cmd.written : Inside(f.path, cmd.destination)
        /\ Cardinality(cmd.written) <= Cardinality(cmd.groups)

\* horcrux bind -o out over horcruxes whose headers say "../x" wrote the
\* plaintext to /w/x, beside the directory out.
C30_Witness ==
    /\ cmd.phase = "bound" /\ cmd.mode = "directory"
    /\ cmd.destination = Cwd \o <<OutDirName>>
    /\ Len(cmd.input) = MaxInputLen
    /\ cmd.written = {[path |-> Cwd \o <<<<120>>>>, data |-> cmd.input]}

\* Without -o, headers that say "/x" made bind write at the root.
WritesAbsolutePath ==
    /\ cmd.phase = "bound" /\ cmd.mode = "directory"
    /\ cmd.destination = Cwd
    /\ \E f \in cmd.written : f.path = <<<<120>>>>

\* The file browser wrote outside its working directory.
BrowserWritesOutside ==
    /\ cmd.phase = "bound" /\ cmd.mode = "interactive"
    /\ \E f \in cmd.written : ~Inside(f.path, Cwd)

\* What holds of the claim: bind writes at most one file per group, and the
\* horcruxes of a split, whose headers hold the base name of the input
\* file, are restored inside the destination.
ContainedUnlessRenamed ==
    cmd.phase = "bound" =>
        /\ Cardinality(cmd.written) <= Cardinality(cmd.groups)
        /\ ~cmd.renamed => \A f \in cmd.written : Inside(f.path, cmd.destination)

\* A bind of untouched horcruxes wrote a.t into the directory out.
WritesIntoDestination ==
    /\ cmd.phase = "bound" /\ ~cmd.renamed
    /\ cmd.written = {[path |-> Cwd \o <<OutDirName, OriginalName>>, data |-> cmd.input]}

====
